---- MODULE Spec2Model ----
(***************************************************************************)
(* CXCollections: the allocators (Allocator.hpp), BreadthFirstSearch,      *)
(* CX::atomic (Atomic.hpp) and QuickSort (Sort.hpp).                       *)
(*                                                                         *)
(* The heap is modelled at byte-address granularity.  A pool is the pair   *)
(* {data, next} of _PoolAllocatorStorage_*; a block header (_::Block) and  *)
(* the free-list links (_::Node) live in heap memory, so they are modelled *)
(* as maps from addresses to the pointers stored there.  The address that  *)
(* ::operator new returns is a nondeterministic choice among aligned,      *)
(* non-overlapping placements.                                             *)
(*                                                                         *)
(*   Spec       one pool (_PoolAllocatorImplementation): allocate and      *)
(*              deallocate of outstanding pointers                         *)
(*   SpecFind   the same pool with find_block                              *)
(*   SpecBlock  one block allocator (_BlockAllocatorImplementation) over   *)
(*              its 22 pools: allocate(n) and deallocate(p, n)             *)
(*   SpecOversize  the block allocator with requests beyond every class    *)
(*   SpecNarrow one pool over an element type narrower than _::Node        *)
(*   SpecStatic two StaticPoolAllocator objects and their static storage   *)
(*   SpecFixed  one UniquePoolAllocator and one FixedPoolAllocator         *)
(*   SpecMisuse one pool whose caller deallocates free pointers and uses   *)
(*              the elements it is given                                   *)
(*   SpecMismatch  the block allocator with deallocate(p, n) calls whose n *)
(*              maps to another class than the one p came from             *)
(*   SpecAligned   cyber::Allocator objects: allocate and deallocate       *)
(*   SpecBFS, SpecBFSLive  BreadthFirstSearch::FindPathReversed, statement *)
(*              by statement; SpecBFSLive adds that a running call         *)
(*              continues to run                                           *)
(*   SpecUnique one UniquePoolAllocator: allocate and deallocate           *)
(*   SpecRelease   one pool with free(block_data) and free()               *)
(*   SpecLockstep  a UniquePoolAllocator and a FixedPoolAllocator given    *)
(*              the same calls                                             *)
(*   SpecCapacities  the 22 pools of a block allocator storage, declared   *)
(*              in index order                                             *)
(*   SpecThreads   two threads in allocate on one pool, statement by       *)
(*              statement, in every interleaving                           *)
(*   SpecAtomic two threads in the operators of one CX::atomic<uint8_t>    *)
(*   SpecCopy   a UniquePoolAllocator, a FixedPoolAllocator and a copy     *)
(*              constructed from each                                      *)
(*   SpecSort   QuickSort::Sort on arrays of up to MaxLen elements         *)
(*                                                                         *)
(* assert has its standard meaning: a failed assertion ends the process.   *)
(***************************************************************************)
EXTENDS Integers, Sequences, FiniteSets, TLC

VARIABLES
    tparam,     \* template parameters of the allocator under test
    cfg,        \* pool index -> [alignment, value_size, capacity] (template arguments)
    data,       \* pool index -> this->data  (most recent block, NULL if none)
    next,       \* pool index -> this->next  (free-list head, NULL if exhausted)
    blk,        \* heap: block address -> [prev, next]   (_::Block headers)
    link,       \* heap: slot address  -> _::Node::next stored in that slot
    sysAllocs,  \* ::operator new history: <<[base, bytes, align, pool]>> in call order
    live,       \* the caller's outstanding allocations: {[pool, ptr, n]}
    last,       \* caller's log: key -> the last allocate/deallocate call made under it
    before,     \* caller's log: key -> the call made under it before that one
    fb,         \* the last find_block call and what it returned
    nalloc,     \* number of allocate calls made so far
    ndealloc,   \* number of deallocate calls made so far
    fault,      \* the contract violation met so far, if any, and how the call ended
    freed,      \* ::operator delete history: <<[base, alloc]>> in call order
    thread,     \* thread id -> position and locals of the call it is executing
    bfs,        \* a BreadthFirstSearch object, its node graph and its call in progress
    m_value,    \* the value held by a CX::atomic<T> object
    items       \* the array handed to QuickSort::Sort

vars == <<tparam, cfg, data, next, blk, link, sysAllocs, live, last, before, fb,
          nalloc, ndealloc, fault, freed, thread, bfs, m_value, items>>

NULL == 0

\* sizeof(_::Node), sizeof(_::Block) on an LP64 target
SizeofNode == 8
SizeofBlock == 16

\* ---------------------------------------------------------------- bounds
\* candidate placements the system allocator may choose from, per block stride
HeapSlots == 3
\* deallocate calls explored per behaviour
MaxDealloc == 2
\* allocate and deallocate calls made on a block allocator per behaviour
MaxCalls == 4
\* allocate and deallocate calls made by a caller that breaks the contract
MisuseCalls == 6
\* allocate and deallocate calls made by a caller that passes another n
MismatchCalls == 3

\* ------------------------------------------------- template instantiations
\* (alignment, sizeof(T), capacity) of the single pools explored
PoolConfigs ==
    { [alignment |-> 16,   value_size |-> 16, capacity |-> 2],
      [alignment |-> 16,   value_size |-> 8,  capacity |-> 2],
      [alignment |-> 64,   value_size |-> 32, capacity |-> 2],
      [alignment |-> 128,  value_size |-> 64, capacity |-> 1],
      [alignment |-> 4096, value_size |-> 64, capacity |-> 2] }

Pools == DOMAIN cfg

\* static constexpr size_t data_size
data_size(i) ==
    IF cfg[i].value_size < SizeofNode THEN SizeofNode ELSE cfg[i].value_size

\* size_t bytes = sizeof(_::Block) + data_size * n
block_bytes(i, n) == SizeofBlock + data_size(i) * n

\* ------------------------------------------------------- ::operator new
\* Byte ranges [base, base + bytes) handed out by the system and not returned.
Overlaps(a, abytes, b, bbytes) == a < b + bbytes /\ b < a + abytes

Stride(bytes, align) == align * ((bytes + align - 1) \div align)

\* ::operator new(bytes, align_value): any address that is a multiple of the
\* alignment and whose range is disjoint from every outstanding allocation,
\* that is, every allocation not yet passed to ::operator delete.
operator_new(bytes, align) ==
    { a \in { Stride(bytes, align) * k : k \in 1..HeapSlots } :
        \A j \in 1..Len(sysAllocs) :
            \/ ~Overlaps(a, bytes, sysAllocs[j].base, sysAllocs[j].bytes)
            \/ \E k \in 1..Len(freed) : freed[k].alloc = j }

\* ------------------------------------------------ _PoolAllocatorImplementation
\* The memory a pool operation reads and writes, as one value.
Mem == [data |-> data, next |-> next, blk |-> blk, link |-> link]

\* sizeof(value_type): the step of the value_type* arithmetic in malloc
sizeof_value_type(i) == cfg[i].value_size

\* addresses of the n slots that follow the header of the block at base:
\* data_begin + k, as value_type*
SlotAddrs(i, base, n) ==
    { base + SizeofBlock + k * sizeof_value_type(i) : k \in 0..(n - 1) }

\* malloc whose linking loop stops one slot early: the slot before the last is
\* terminated as well, so the last slot is never reachable
malloc_one_short(M, i, n, base) ==
    LET data_begin == base + SizeofBlock
        data_last  == data_begin + (n - 1) * sizeof_value_type(i)
        nodes      == [a \in SlotAddrs(i, base, n) |->
                          IF a + sizeof_value_type(i) >= data_last
                          THEN NULL ELSE a + sizeof_value_type(i)]
    IN  [M EXCEPT !.data[i] = base,
                  !.blk     = (base :> [prev |-> NULL, next |-> NULL]) @@ M.blk,
                  !.next[i] = data_begin,
                  !.link    = nodes @@ M.link]

\* void* malloc(size_t n), with ::operator new returning base
malloc(M, i, n, base) ==
    LET data_begin == base + SizeofBlock
        data_last  == data_begin + (n - 1) * sizeof_value_type(i)
        nodes      == [a \in SlotAddrs(i, base, n) |->
                          IF a = data_last THEN NULL ELSE a + sizeof_value_type(i)]
    IN  [M EXCEPT !.data[i] = base,
                  !.blk     = (base :> [prev |-> NULL, next |-> NULL]) @@ M.blk,
                  !.next[i] = data_begin,
                  !.link    = nodes @@ M.link]

\* the growth branch without the store to block_old->next: the new block is
\* linked backwards only
grow_without_next(M, i, base) ==
    LET block_old == M.data[i]
        M1 == malloc(M, i, cfg[i].capacity, base)
        block_new == M1.data[i]
    IN  [M1 EXCEPT !.blk[block_new].prev = block_old]

\* the growth branch of allocate: if (this->next == nullptr) { ... }
grow(M, i, base) ==
    LET block_old == M.data[i]
        M1 == malloc(M, i, cfg[i].capacity, base)
        block_new == M1.data[i]
        M2 == [M1 EXCEPT !.blk[block_new].prev = block_old]
    IN  IF block_old # NULL
        THEN [M2 EXCEPT !.blk[block_old].next = block_new]
        ELSE M2

\* the pop without the store to this->next: the head is returned and kept
pop_keeps_head(M, i) ==
    [mem |-> M, ret |-> M.next[i]]

\* the pop at the end of allocate: cur = next; next = cur->next; return cur
pop(M, i) ==
    LET cur == M.next[i]
    IN  [mem |-> [M EXCEPT !.next[i] = M.link[cur]], ret |-> cur]

\* deallocate without the store to this->next: the head is left where it was
push_keeps_head(M, i, p) ==
    [M EXCEPT !.link = (p :> M.next[i]) @@ M.link]

\* deallocate that terminates the freed node instead of linking it to the old head
push_drops_tail(M, i, p) ==
    [M EXCEPT !.link = (p :> NULL) @@ M.link,
              !.next[i] = p]

\* void deallocate(value_type* p, size_t n)
push(M, i, p) ==
    [M EXCEPT !.link = (p :> M.next[i]) @@ M.link,
              !.next[i] = p]

Commit(M) ==
    /\ data' = M.data
    /\ next' = M.next
    /\ blk'  = M.blk
    /\ link' = M.link

\* The caller's record of a call: the pool that served it, the pointer passed or
\* returned, the element count n passed, whether a block was requested, and
\* whether a call filed under another key has been made since.
Call(op, i, p, n, grew) ==
    [op |-> op, pool |-> i, ptr |-> p, n |-> n, grew |-> grew, interleaved |-> FALSE]
NoCall == Call("none", 0, NULL, 0, FALSE)
NoFind == [called |-> FALSE, pool |-> 0, p |-> NULL, ret |-> NULL]

\* a program with a single thread of control and no BreadthFirstSearch object
NoThreads == <<>>
NoSearch == <<>>

\* a program with no CX::atomic object and no array to sort
NoAtomic == <<>>
NoItems == <<>>

\* No contract has been violated: every call so far returned normally.
NoFault == [kind |-> "none", ptr |-> NULL, index |-> 0, reads |-> 0]

Log(key, call) ==
    /\ last' = [k \in DOMAIN last |->
                  IF k = key THEN call
                  ELSE IF last[k].op = "none" THEN last[k]
                  ELSE [last[k] EXCEPT !.interleaved = TRUE]]
    /\ before' = [before EXCEPT ![key] = last[key]]

\* allocate that requests a block one call early: also when the head of the
\* free list is the last free slot
PoolAllocate_grows_early(i, key, n) ==
    IF next[i] = NULL \/ link[next[i]] = NULL
    THEN \E base \in operator_new(block_bytes(i, cfg[i].capacity), cfg[i].alignment) :
            LET r == pop(grow(Mem, i, base), i)
            IN  /\ Commit(r.mem)
                /\ sysAllocs' = Append(sysAllocs,
                                  [base |-> base,
                                   bytes |-> block_bytes(i, cfg[i].capacity),
                                   align |-> cfg[i].alignment, pool |-> i])
                /\ live' = live \cup {[pool |-> i, ptr |-> r.ret, n |-> n]}
                /\ Log(key, Call("allocate", i, r.ret, n, TRUE))
    ELSE LET r == pop(Mem, i)
         IN  /\ Commit(r.mem)
             /\ UNCHANGED sysAllocs
             /\ live' = live \cup {[pool |-> i, ptr |-> r.ret, n |-> n]}
             /\ Log(key, Call("allocate", i, r.ret, n, FALSE))

\* value_type* allocate(size_t n) on pool i; the caller asked for n units and
\* files the call under key
PoolAllocate(i, key, n) ==
    IF next[i] = NULL
    THEN \E base \in operator_new(block_bytes(i, cfg[i].capacity), cfg[i].alignment) :
            LET r == pop(grow(Mem, i, base), i)
            IN  /\ Commit(r.mem)
                /\ sysAllocs' = Append(sysAllocs,
                                  [base |-> base,
                                   bytes |-> block_bytes(i, cfg[i].capacity),
                                   align |-> cfg[i].alignment, pool |-> i])
                /\ live' = live \cup {[pool |-> i, ptr |-> r.ret, n |-> n]}
                /\ Log(key, Call("allocate", i, r.ret, n, TRUE))
    ELSE LET r == pop(Mem, i)
         IN  /\ Commit(r.mem)
             /\ UNCHANGED sysAllocs
             /\ live' = live \cup {[pool |-> i, ptr |-> r.ret, n |-> n]}
             /\ Log(key, Call("allocate", i, r.ret, n, FALSE))

\* deallocate as the class comments describe it ("deallocates blocks when they
\* become empty"): when the push leaves no slot of p's block outstanding, the
\* block is unlinked as free(void*) does and its memory is given back
PoolDeallocate_releases_empty(i, key, p, n) ==
    LET M == push(Mem, i, p)
        owner == { b \in DOMAIN blk :
                     b < p /\ p < b + block_bytes(i, cfg[i].capacity) }
        empty == { b \in owner :
                     \A a \in live : a.ptr = p \/ ~(b < a.ptr /\
                                        a.ptr < b + block_bytes(i, cfg[i].capacity)) }
    IN  /\ \/ /\ empty = {}
              /\ Commit(M)
           \/ \E b \in empty :
                LET prev == blk[b].prev
                    nxt  == blk[b].next
                    kept == [x \in DOMAIN blk \ {b} |->
                               [prev |-> IF x = nxt THEN prev ELSE blk[x].prev,
                                next |-> IF x = prev THEN nxt ELSE blk[x].next]]
                IN  Commit([M EXCEPT !.blk = kept,
                                     !.data[i] = IF M.data[i] = b THEN prev ELSE @])
        /\ Log(key, Call("deallocate", i, p, n, FALSE))
        /\ UNCHANGED sysAllocs

\* deallocate that validates its argument against the head: a pointer that is
\* already the head of the free list is not pushed again
PoolDeallocate_checks_head(i, key, p, n) ==
    /\ Commit(IF next[i] = p THEN Mem ELSE push(Mem, i, p))
    /\ Log(key, Call("deallocate", i, p, n, FALSE))
    /\ UNCHANGED sysAllocs

\* void deallocate(value_type* p, size_t n) on pool i
PoolDeallocate(i, key, p, n) ==
    /\ Commit(push(Mem, i, p))
    /\ Log(key, Call("deallocate", i, p, n, FALSE))
    /\ UNCHANGED sysAllocs

\* ------------------------------------------------------------ single pool
Init ==
    /\ \E c \in PoolConfigs :
          /\ cfg = [i \in {0} |-> c]
          /\ tparam = [T |-> c.value_size, blockSize |-> 0]
    /\ data = [i \in {0} |-> NULL]
    /\ next = [i \in {0} |-> NULL]
    /\ blk = <<>>
    /\ link = <<>>
    /\ sysAllocs = <<>>
    /\ live = {}
    /\ last = [i \in {0} |-> NoCall]
    /\ before = [i \in {0} |-> NoCall]
    /\ fb = NoFind
    /\ nalloc = 0
    /\ ndealloc = 0
    /\ fault = NoFault
    /\ freed = <<>>
    /\ m_value = NoAtomic
    /\ items = NoItems
    /\ thread = NoThreads
    /\ bfs = NoSearch

\* the caller calls allocate(1); assert(n == 1)
allocate ==
    /\ PoolAllocate(0, 0, 1)
    /\ nalloc' = nalloc + 1
    /\ UNCHANGED <<tparam, m_value, items, cfg, freed, thread, bfs, fb, ndealloc, fault>>

\* the caller returns one of its outstanding pointers: deallocate(p, 1)
deallocate ==
    /\ ndealloc < MaxDealloc
    /\ \E a \in live :
          /\ PoolDeallocate(0, 0, a.ptr, 1)
          /\ live' = live \ {a}
    /\ ndealloc' = ndealloc + 1
    /\ UNCHANGED <<tparam, m_value, items, cfg, freed, thread, bfs, fb, nalloc, fault>>

Next == allocate \/ deallocate

Spec == Init /\ [][Next]_vars

\* ------------------------------------------------------------- find_block
\* the loop of find_block, entered with block = this->data:
\*   while (block->prev != nullptr) { if (bgn < p && p < end) return block;
\*                                    block = block->prev; }  return nullptr;
\* with end = block + sizeof(_::Block) * data_size * capacity.  The product is
\* a multiple of sizeof(_::Block), so p < end is compared as
\* (p - block) / sizeof(_::Block) < data_size * capacity, which keeps the
\* arithmetic inside the checker's integers.
RECURSIVE find_block_loop(_, _, _)
find_block_loop(i, block, p) ==
    IF blk[block].prev = NULL
    THEN NULL
    ELSE IF block < p /\ (p - block) \div SizeofBlock < data_size(i) * cfg[i].capacity
         THEN block
         ELSE find_block_loop(i, blk[block].prev, p)

\* _::Block* find_block(value_type* p); assert(block)
PoolFindBlock(i, p) ==
    /\ data[i] # NULL
    /\ fb' = [called |-> TRUE, pool |-> i, p |-> p, ret |-> find_block_loop(i, data[i], p)]

\* the caller asks for the block of one of its outstanding pointers
find_block ==
    /\ \E a \in live : PoolFindBlock(0, a.ptr)
    /\ UNCHANGED <<tparam, m_value, items, cfg, freed, thread, bfs, data, next, blk, link, sysAllocs, live, last, before,
                   nalloc, ndealloc, fault>>

NextFind == allocate \/ deallocate \/ find_block

SpecFind == Init /\ [][NextFind]_vars

\* ------------------------------------------------ _BlockAllocatorStorage_Base
\* (sizeof(T), blockSize) of the block allocators explored
BlockParams ==
    { [T |-> 4, blockSize |-> 128],
      [T |-> 4, blockSize |-> 256] }

\* element counts the caller asks for
RequestSizes == {10, 16, 17, 33554432}

\* static constexpr size_t subblock_capacities[22]
subblock_capacities ==
    << 16, 32, 64, 128, 256, 512, 1024, 2048, 4096, 8192, 16384, 32768,
       65536, 131072, 262144, 524288, 1048576, 2097152, 4194304, 8388608,
       16777216, 33554432 >>

NumSubblocks == Len(subblock_capacities)
Classes == 0..(NumSubblocks - 1)

\* subblock_capacities[i] with the source's zero-based index
capacity_of(i) == subblock_capacities[i + 1]

\* 0x7FFFFFFFF / 16, rounded down: every capacity is a multiple of 16, so
\* sizeof(T) * capacity > 0x7FFFFFFFF exactly when
\* sizeof(T) * (capacity / 16) > 0x7FFFFFFF
SubblockSizeLimitDiv16 == 2147483647

\* static constexpr size_t subblock_sizes[22]
subblock_sizes(T, i) ==
    IF T * (capacity_of(i) \div 16) > SubblockSizeLimitDiv16
    THEN 0
    ELSE T * capacity_of(i)

\* block_capacities[i] as the bare quotient, without the fallback to 1
block_capacities_quotient(T, blockSize, i) ==
    blockSize \div subblock_sizes(T, i)

\* static constexpr size_t block_capacities[22]
block_capacities(T, blockSize, i) ==
    IF blockSize \div subblock_sizes(T, i) # 0
    THEN blockSize \div subblock_sizes(T, i)
    ELSE 1

\* pool_i : PoolAllocator<SubBlock_i, 4096, block_capacities[i]>,
\* sizeof(SubBlock_i) = sizeof(T) * subblock_capacities[i]
pool_config(T, blockSize, i) ==
    [alignment  |-> 4096,
     value_size |-> T * capacity_of(i),
     capacity   |-> block_capacities(T, blockSize, i)]

\* ---------------------------------------------- _BlockAllocatorImplementation
\* while (n > Storage_T::subblock_capacities[subblock_i]) ++subblock_i;
RECURSIVE scan(_, _)
scan(n, subblock_i) ==
    IF n > capacity_of(subblock_i) THEN scan(n, subblock_i + 1) ELSE subblock_i

\* the scan started one entry too far
allocate_subblock_i_from_1(n) == scan(n, 1)

\* the scan run on n narrowed to 16 bits
allocate_subblock_i_u16(n) == scan(n % 65536, 0)

\* allocate: size_t subblock_i = 0; while (...) ++subblock_i;
allocate_subblock_i(n) == scan(n, 0)

\* the scan started one entry too far
deallocate_subblock_i_from_1(n) == scan(n, 1)

\* deallocate: size_t subblock_i = 0; while (...) ++subblock_i;
deallocate_subblock_i(n) == scan(n, 0)

\* "find the subblock with smallest capacity for n": the class the caller
\* expects a request of n elements to be filed under
ClassOf(n) ==
    CHOOSE i \in Classes :
        /\ n <= capacity_of(i)
        /\ \A j \in Classes : j < i => n > capacity_of(j)

InitBlock ==
    /\ tparam \in BlockParams
    /\ cfg = [i \in Classes |-> pool_config(tparam.T, tparam.blockSize, i)]
    /\ data = [i \in Classes |-> NULL]
    /\ next = [i \in Classes |-> NULL]
    /\ blk = <<>>
    /\ link = <<>>
    /\ sysAllocs = <<>>
    /\ live = {}
    /\ last = [i \in Classes |-> NoCall]
    /\ before = [i \in Classes |-> NoCall]
    /\ fb = NoFind
    /\ nalloc = 0
    /\ ndealloc = 0
    /\ fault = NoFault
    /\ freed = <<>>
    /\ m_value = NoAtomic
    /\ items = NoItems
    /\ thread = NoThreads
    /\ bfs = NoSearch

\* T* allocate(size_t n): switch (subblock_i) { case i: pool_i.allocate(1)->data }
BlockAllocator_allocate ==
    /\ nalloc + ndealloc < MaxCalls
    /\ \E n \in RequestSizes :
          LET subblock_i == allocate_subblock_i(n)
          IN  /\ subblock_i \in Classes
              /\ PoolAllocate(subblock_i, ClassOf(n), n)
    /\ nalloc' = nalloc + 1
    /\ UNCHANGED <<tparam, m_value, items, cfg, freed, thread, bfs, fb, ndealloc, fault>>

\* deallocate whose switch lacks the break after each case: the pool of the
\* next class is handed the pointer as well
BlockAllocator_deallocate_fallthrough ==
    /\ nalloc + ndealloc < MaxCalls
    /\ \E a \in live :
          LET subblock_i == deallocate_subblock_i(a.n)
              M1 == push(Mem, subblock_i, a.ptr)
          IN  /\ subblock_i \in Classes
              /\ Commit(IF subblock_i + 1 \in Classes
                        THEN push(M1, subblock_i + 1, a.ptr)
                        ELSE M1)
              /\ Log(ClassOf(a.n), Call("deallocate", subblock_i, a.ptr, a.n, FALSE))
              /\ UNCHANGED sysAllocs
              /\ live' = live \ {a}
    /\ ndealloc' = ndealloc + 1
    /\ UNCHANGED <<tparam, m_value, items, cfg, freed, thread, bfs, fb, nalloc, fault>>

\* void deallocate(T* p, size_t n), called with an outstanding pointer and the
\* n it was allocated with: switch (subblock_i) { case i: pool_i.deallocate(p, 1) }
BlockAllocator_deallocate ==
    /\ nalloc + ndealloc < MaxCalls
    /\ \E a \in live :
          LET subblock_i == deallocate_subblock_i(a.n)
          IN  /\ subblock_i \in Classes
              /\ PoolDeallocate(subblock_i, ClassOf(a.n), a.ptr, a.n)
              /\ live' = live \ {a}
    /\ ndealloc' = ndealloc + 1
    /\ UNCHANGED <<tparam, m_value, items, cfg, freed, thread, bfs, fb, nalloc, fault>>

NextBlock == BlockAllocator_allocate \/ BlockAllocator_deallocate

SpecBlock == InitBlock /\ [][NextBlock]_vars

\* --------------------------------- pools of elements narrower than _::Node
\* A pool over a 4-byte element type.  data_size is raised to sizeof(_::Node),
\* but malloc steps through the block as value_type*, so consecutive slots are
\* sizeof(value_type) = 4 bytes apart while each _::Node::next store is 8 bytes
\* wide.  For these pools link maps every 4-byte-aligned address to the 32-bit
\* word stored there, and a pointer is stored as two words, low word first.
\* The addresses of the modelled heap are below 2^32, so the high word of a
\* pointer into it is 0.
NarrowConfigs ==
    { [alignment |-> 16, value_size |-> 4, capacity |-> 2],
      [alignment |-> 16, value_size |-> 4, capacity |-> 3],
      [alignment |-> 64, value_size |-> 4, capacity |-> 3] }

\* bytes per word of link in these pools
WordBytes == 4

\* a 64-bit value that is not an address of the modelled heap (its high word
\* is not 0), and a word of such a value
Wild == -1

low_word(v) == v
high_word(v) == IF v = Wild THEN Wild ELSE 0

\* reinterpret_cast<_::Node*>(a)->next = v: an 8-byte store at a
Node_store(L, a, v) ==
    (a :> low_word(v)) @@ ((a + WordBytes) :> high_word(v)) @@ L

\* reinterpret_cast<_::Node*>(a)->next: an 8-byte load from a
Node_load(L, a) ==
    IF L[a + WordBytes] = 0 /\ L[a] # Wild THEN L[a] ELSE Wild

\* for (itr = data_begin; itr != data_last; ++itr) itr->next = itr + 1;
\* data_last->next = nullptr;   with the stores made in program order
RECURSIVE link_slots(_, _, _, _)
link_slots(L, itr, data_last, step) ==
    IF itr = data_last
    THEN Node_store(L, data_last, NULL)
    ELSE link_slots(Node_store(L, itr, itr + step), itr + step, data_last, step)

\* void* malloc(size_t n), with ::operator new returning base
malloc_narrow(M, i, n, base) ==
    LET data_begin == base + SizeofBlock
        data_last  == data_begin + (n - 1) * sizeof_value_type(i)
    IN  [M EXCEPT !.data[i] = base,
                  !.blk     = (base :> [prev |-> NULL, next |-> NULL]) @@ M.blk,
                  !.next[i] = data_begin,
                  !.link    = link_slots(M.link, data_begin, data_last,
                                         sizeof_value_type(i))]

\* the growth branch of allocate
grow_narrow(M, i, base) ==
    LET block_old == M.data[i]
        M1 == malloc_narrow(M, i, cfg[i].capacity, base)
        block_new == M1.data[i]
        M2 == [M1 EXCEPT !.blk[block_new].prev = block_old]
    IN  IF block_old # NULL
        THEN [M2 EXCEPT !.blk[block_old].next = block_new]
        ELSE M2

\* cur = next; next = cur->next; return cur
pop_narrow(M, i) ==
    LET cur == M.next[i]
    IN  [mem |-> [M EXCEPT !.next[i] = Node_load(M.link, cur)], ret |-> cur]

\* next_new->next = next_old; this->next = next_new
push_narrow(M, i, p) ==
    [M EXCEPT !.link = Node_store(M.link, p, M.next[i]),
              !.next[i] = p]

\* the process was ended by an access through a pointer that is not an address
\* of the heap
Crashed == fault.kind = "wild access"
WildAccess(p) == [kind |-> "wild access", ptr |-> p, index |-> 0, reads |-> 0]

InitNarrow ==
    /\ \E c \in NarrowConfigs :
          /\ cfg = [i \in {0} |-> c]
          /\ tparam = [T |-> c.value_size, blockSize |-> 0]
    /\ data = [i \in {0} |-> NULL]
    /\ next = [i \in {0} |-> NULL]
    /\ blk = <<>>
    /\ link = <<>>
    /\ sysAllocs = <<>>
    /\ live = {}
    /\ last = [i \in {0} |-> NoCall]
    /\ before = [i \in {0} |-> NoCall]
    /\ fb = NoFind
    /\ nalloc = 0
    /\ ndealloc = 0
    /\ fault = NoFault
    /\ freed = <<>>
    /\ m_value = NoAtomic
    /\ items = NoItems
    /\ thread = NoThreads
    /\ bfs = NoSearch

\* allocate(1).  When the head of the free list is not an address of the heap,
\* cur->next is undefined: the access ends the process, or it reads some value
\* and the call returns cur.
NarrowPool_allocate ==
    /\ ~Crashed
    /\ nalloc + ndealloc < MaxCalls
    /\ \/ /\ next[0] = NULL
          /\ \E base \in operator_new(block_bytes(0, cfg[0].capacity), cfg[0].alignment) :
                LET r == pop_narrow(grow_narrow(Mem, 0, base), 0)
                IN  /\ Commit(r.mem)
                    /\ sysAllocs' = Append(sysAllocs,
                                      [base |-> base,
                                       bytes |-> block_bytes(0, cfg[0].capacity),
                                       align |-> cfg[0].alignment, pool |-> 0])
                    /\ live' = live \cup {[pool |-> 0, ptr |-> r.ret, n |-> 1]}
                    /\ Log(0, Call("allocate", 0, r.ret, 1, TRUE))
                    /\ UNCHANGED fault
       \/ /\ next[0] \notin {NULL, Wild}
          /\ LET r == pop_narrow(Mem, 0)
             IN  /\ Commit(r.mem)
                 /\ live' = live \cup {[pool |-> 0, ptr |-> r.ret, n |-> 1]}
                 /\ Log(0, Call("allocate", 0, r.ret, 1, FALSE))
                 /\ UNCHANGED <<sysAllocs, fault>>
       \/ /\ next[0] = Wild
          /\ \/ /\ fault' = WildAccess(Wild)
                /\ UNCHANGED <<data, next, blk, link, sysAllocs, live, last, before>>
             \/ \E v \in {NULL, Wild} :
                /\ next' = [next EXCEPT ![0] = v]
                /\ live' = live \cup {[pool |-> 0, ptr |-> Wild, n |-> 1]}
                /\ Log(0, Call("allocate", 0, Wild, 1, FALSE))
                /\ UNCHANGED <<data, blk, link, sysAllocs, fault>>
    /\ nalloc' = nalloc + 1
    /\ UNCHANGED <<tparam, m_value, items, cfg, freed, thread, bfs, fb, ndealloc>>

\* deallocate(p, 1) of an outstanding pointer.  When p is not an address of
\* the heap the store to p->next is undefined: it ends the process, or it
\* lands outside the pool's blocks.
NarrowPool_deallocate ==
    /\ ~Crashed
    /\ nalloc + ndealloc < MaxCalls
    /\ \E a \in live :
          /\ \/ /\ a.ptr # Wild
                /\ Commit(push_narrow(Mem, 0, a.ptr))
                /\ UNCHANGED fault
                /\ Log(0, Call("deallocate", 0, a.ptr, 1, FALSE))
             \/ /\ a.ptr = Wild
                /\ fault' = WildAccess(Wild)
                /\ UNCHANGED <<data, next, blk, link, last, before>>
             \/ /\ a.ptr = Wild
                /\ next' = [next EXCEPT ![0] = Wild]
                /\ Log(0, Call("deallocate", 0, a.ptr, 1, FALSE))
                /\ UNCHANGED <<data, blk, link, fault>>
          /\ live' = live \ {a}
    /\ ndealloc' = ndealloc + 1
    /\ UNCHANGED <<tparam, m_value, items, cfg, freed, thread, bfs, sysAllocs, fb, nalloc>>

NextNarrow == NarrowPool_allocate \/ NarrowPool_deallocate

SpecNarrow == InitNarrow /\ [][NextNarrow]_vars

\* ------------------------------------------------------ StaticPoolAllocator
\* A program with two StaticPoolAllocator objects, 0 and 1.  Each pair gives
\* their instantiations <<StaticPoolAllocator<T0, a0, c0>, <T1, a1, c1>>>.
StaticPairs ==
    LET S(t, a, c) == [type |-> t, alignment |-> a, value_size |-> 16, capacity |-> c]
    IN  { << S("T", 16, 2), S("T", 16, 2) >>,
          << S("T", 16, 2), S("T", 64, 2) >>,
          << S("T", 16, 2), S("T", 16, 1) >>,
          << S("T", 16, 2), S("U", 16, 2) >> }

\* the template arguments (T, alignment, capacity) of an instantiation
Signature(c) == <<c.type, c.alignment, c.capacity>>

\* storage that is a separate pair of statics for every (T, alignment, capacity)
storage_key_signature(c) == Signature(c)

\* the base class holding data and next of StaticPoolAllocator<T, alignment,
\* capacity> is _PoolAllocatorStorage_Static<T>: one pair of statics per T
storage_key(c) == c.type

\* this->data and this->next of object o name the statics of its storage
\* class: a store made through o is seen through every object of that class
Share(M, o) ==
    [M EXCEPT !.data = [j \in DOMAIN M.data |->
                           IF storage_key(cfg[j]) = storage_key(cfg[o])
                           THEN M.data[o] ELSE M.data[j]],
              !.next = [j \in DOMAIN M.next |->
                           IF storage_key(cfg[j]) = storage_key(cfg[o])
                           THEN M.next[o] ELSE M.next[j]]]

InitStatic ==
    /\ \E pair \in StaticPairs :
          /\ cfg = [o \in {0, 1} |-> pair[o + 1]]
          /\ tparam = [T |-> pair[1].value_size, blockSize |-> 0]
    /\ data = [o \in {0, 1} |-> NULL]
    /\ next = [o \in {0, 1} |-> NULL]
    /\ blk = <<>>
    /\ link = <<>>
    /\ sysAllocs = <<>>
    /\ live = {}
    /\ last = [o \in {0, 1} |-> NoCall]
    /\ before = [o \in {0, 1} |-> NoCall]
    /\ fb = NoFind
    /\ nalloc = 0
    /\ ndealloc = 0
    /\ fault = NoFault
    /\ freed = <<>>
    /\ m_value = NoAtomic
    /\ items = NoItems
    /\ thread = NoThreads
    /\ bfs = NoSearch

\* allocate(1) through one of the objects
StaticPool_allocate ==
    /\ nalloc + ndealloc < MaxCalls
    /\ \E o \in Pools :
          IF next[o] = NULL
          THEN \E base \in operator_new(block_bytes(o, cfg[o].capacity), cfg[o].alignment) :
                  LET r == pop(grow(Mem, o, base), o)
                  IN  /\ Commit(Share(r.mem, o))
                      /\ sysAllocs' = Append(sysAllocs,
                                        [base |-> base,
                                         bytes |-> block_bytes(o, cfg[o].capacity),
                                         align |-> cfg[o].alignment, pool |-> o])
                      /\ live' = live \cup {[pool |-> o, ptr |-> r.ret, n |-> 1]}
                      /\ Log(o, Call("allocate", o, r.ret, 1, TRUE))
          ELSE LET r == pop(Mem, o)
               IN  /\ Commit(Share(r.mem, o))
                   /\ UNCHANGED sysAllocs
                   /\ live' = live \cup {[pool |-> o, ptr |-> r.ret, n |-> 1]}
                   /\ Log(o, Call("allocate", o, r.ret, 1, FALSE))
    /\ nalloc' = nalloc + 1
    /\ UNCHANGED <<tparam, m_value, items, cfg, freed, thread, bfs, fb, ndealloc, fault>>

\* deallocate(p, 1) of an outstanding pointer, through the object that
\* returned it or through another object of the same instantiation
StaticPool_deallocate ==
    /\ nalloc + ndealloc < MaxCalls
    /\ \E a \in live : \E o \in Pools :
          /\ Signature(cfg[o]) = Signature(cfg[a.pool])
          /\ Commit(Share(push(Mem, o, a.ptr), o))
          /\ Log(o, Call("deallocate", o, a.ptr, 1, FALSE))
          /\ live' = live \ {a}
    /\ ndealloc' = ndealloc + 1
    /\ UNCHANGED <<tparam, m_value, items, cfg, freed, thread, bfs, sysAllocs, fb, nalloc, fault>>

NextStatic == StaticPool_allocate \/ StaticPool_deallocate

SpecStatic == InitStatic /\ [][NextStatic]_vars

\* ------------------------------------------------------- FixedPoolAllocator
\* A program that constructs one UniquePoolAllocator (pool 0) and one
\* FixedPoolAllocator (pool 1) over the same template arguments.
UniquePool == 0
FixedPool  == 1

\* FixedPoolAllocator::malloc: size_t bytes = data_size * n
fixed_bytes(i, n) == data_size(i) * n

\* addresses of the n slots of the block at base: data_begin + k, as value_type*
FixedSlotAddrs(i, base, n) == { base + k * sizeof_value_type(i) : k \in 0..(n - 1) }

\* FixedPoolAllocator::malloc whose linking loop stops one slot early
FixedPool_malloc_one_short(M, i, n, base) ==
    LET data_last == base + (n - 1) * sizeof_value_type(i)
        nodes     == [a \in FixedSlotAddrs(i, base, n) |->
                         IF a + sizeof_value_type(i) >= data_last
                         THEN NULL ELSE a + sizeof_value_type(i)]
    IN  [M EXCEPT !.data[i] = base,
                  !.next[i] = base,
                  !.link    = nodes @@ M.link]

\* a constructor that leaves the allocation to the first allocate
FixedPool_malloc_lazy(M, i, n, base) == M

\* FixedPoolAllocator::malloc that links the slots from the last to the first
FixedPool_malloc_descending(M, i, n, base) ==
    LET data_last == base + (n - 1) * sizeof_value_type(i)
        nodes     == [a \in FixedSlotAddrs(i, base, n) |->
                         IF a = base THEN NULL ELSE a - sizeof_value_type(i)]
    IN  [M EXCEPT !.data[i] = base,
                  !.next[i] = data_last,
                  !.link    = nodes @@ M.link]

\* void* FixedPoolAllocator::malloc(size_t n), with ::operator new returning
\* base: no block header, the slots start at data
FixedPool_malloc(M, i, n, base) ==
    LET data_last == base + (n - 1) * sizeof_value_type(i)
        nodes     == [a \in FixedSlotAddrs(i, base, n) |->
                         IF a = data_last THEN NULL ELSE a + sizeof_value_type(i)]
    IN  [M EXCEPT !.data[i] = base,
                  !.next[i] = base,
                  !.link    = nodes @@ M.link]

\* the process was aborted by a failed assertion
Aborted == fault.kind = "assert"

\* assert(next && "fixed pool out of memory - most likely will crash"), failing
OutOfMemory(i) == [kind |-> "assert", ptr |-> NULL, index |-> i, reads |-> 0]

\* UniquePoolAllocator() leaves data and next at their initialisers;
\* FixedPoolAllocator() { this->malloc(capacity); }
InitFixed ==
    /\ \E c \in PoolConfigs :
          /\ cfg = [i \in {UniquePool, FixedPool} |-> c]
          /\ tparam = [T |-> c.value_size, blockSize |-> 0]
    /\ \E base \in { Stride(fixed_bytes(FixedPool, cfg[FixedPool].capacity),
                            cfg[FixedPool].alignment) * k : k \in 1..HeapSlots } :
          LET M0 == [data |-> [i \in {UniquePool, FixedPool} |-> NULL],
                     next |-> [i \in {UniquePool, FixedPool} |-> NULL],
                     blk  |-> <<>>,
                     link |-> <<>>]
              M  == FixedPool_malloc(M0, FixedPool, cfg[FixedPool].capacity, base)
          IN  /\ data = M.data
              /\ next = M.next
              /\ blk  = M.blk
              /\ link = M.link
              /\ sysAllocs = << [base  |-> base,
                                 bytes |-> fixed_bytes(FixedPool, cfg[FixedPool].capacity),
                                 align |-> cfg[FixedPool].alignment,
                                 pool  |-> FixedPool] >>
    /\ live = {}
    /\ last = [i \in {UniquePool, FixedPool} |-> NoCall]
    /\ before = [i \in {UniquePool, FixedPool} |-> NoCall]
    /\ fb = NoFind
    /\ nalloc = 0
    /\ ndealloc = 0
    /\ fault = NoFault
    /\ freed = <<>>
    /\ m_value = NoAtomic
    /\ items = NoItems
    /\ thread = NoThreads
    /\ bfs = NoSearch

\* the caller calls allocate(1) on the UniquePoolAllocator
UniquePool_allocate ==
    /\ ~Aborted
    /\ nalloc + ndealloc < MaxCalls
    /\ PoolAllocate(UniquePool, UniquePool, 1)
    /\ nalloc' = nalloc + 1
    /\ UNCHANGED <<tparam, m_value, items, cfg, freed, thread, bfs, fb, ndealloc, fault>>

\* the caller returns an outstanding pointer of the UniquePoolAllocator
UniquePool_deallocate ==
    /\ ~Aborted
    /\ nalloc + ndealloc < MaxCalls
    /\ \E a \in { x \in live : x.pool = UniquePool } :
          /\ PoolDeallocate(UniquePool, UniquePool, a.ptr, 1)
          /\ live' = live \ {a}
    /\ ndealloc' = ndealloc + 1
    /\ UNCHANGED <<tparam, m_value, items, cfg, freed, thread, bfs, fb, nalloc, fault>>

\* FixedPoolAllocator::allocate that reports exhaustion by returning nullptr
FixedPool_allocate_returns_null ==
    /\ ~Aborted
    /\ nalloc + ndealloc < MaxCalls
    /\ IF next[FixedPool] = NULL
       THEN /\ Log(FixedPool, Call("allocate", FixedPool, NULL, 1, FALSE))
            /\ UNCHANGED <<data, next, blk, link, live, fault>>
       ELSE LET r == pop(Mem, FixedPool)
            IN  /\ Commit(r.mem)
                /\ live' = live \cup {[pool |-> FixedPool, ptr |-> r.ret, n |-> 1]}
                /\ Log(FixedPool, Call("allocate", FixedPool, r.ret, 1, FALSE))
                /\ UNCHANGED fault
    /\ nalloc' = nalloc + 1
    /\ UNCHANGED <<tparam, m_value, items, cfg, freed, thread, bfs, sysAllocs, fb, ndealloc>>

\* value_type* FixedPoolAllocator::allocate(size_t n), called with n = 1:
\* assert(next && ...); cur = next; next = cur->next; return cur
FixedPool_allocate ==
    /\ ~Aborted
    /\ nalloc + ndealloc < MaxCalls
    /\ IF next[FixedPool] = NULL
       THEN /\ fault' = OutOfMemory(FixedPool)
            /\ UNCHANGED <<data, next, blk, link, live, last, before>>
       ELSE LET r == pop(Mem, FixedPool)
            IN  /\ Commit(r.mem)
                /\ live' = live \cup {[pool |-> FixedPool, ptr |-> r.ret, n |-> 1]}
                /\ Log(FixedPool, Call("allocate", FixedPool, r.ret, 1, FALSE))
                /\ UNCHANGED fault
    /\ nalloc' = nalloc + 1
    /\ UNCHANGED <<tparam, m_value, items, cfg, freed, thread, bfs, sysAllocs, fb, ndealloc>>

\* void FixedPoolAllocator::deallocate(value_type* p, size_t n) of an
\* outstanding pointer
FixedPool_deallocate ==
    /\ ~Aborted
    /\ nalloc + ndealloc < MaxCalls
    /\ \E a \in { x \in live : x.pool = FixedPool } :
          /\ PoolDeallocate(FixedPool, FixedPool, a.ptr, 1)
          /\ live' = live \ {a}
    /\ ndealloc' = ndealloc + 1
    /\ UNCHANGED <<tparam, m_value, items, cfg, freed, thread, bfs, fb, nalloc, fault>>

NextFixed ==
    \/ UniquePool_allocate
    \/ UniquePool_deallocate
    \/ FixedPool_allocate
    \/ FixedPool_deallocate

SpecFixed == InitFixed /\ [][NextFixed]_vars

\* ------------------------------------------------ requests beyond every class
\* element counts larger than subblock_capacities[21] = 0x02000000
OversizeRequests == {33554433, 33554434}

\* What the scan can read behind the last entry of subblock_capacities: the
\* array has 22 elements, so subblock_capacities[22], [23], ... are whatever
\* the build placed there.  The scan of a request n passes every value below n
\* and stops at the first value that is not.
PastTheEnd(n) == { <<n>>, <<0, n>>, <<n - 1, 0, n + 1>> }

\* subblock_capacities[k] as the scan reads it, with tail behind the array
capacity_read(k, tail) ==
    IF k < NumSubblocks THEN capacity_of(k) ELSE tail[k - NumSubblocks + 1]

\* while (n > Storage_T::subblock_capacities[subblock_i]) ++subblock_i;
RECURSIVE scan_unbounded(_, _, _)
scan_unbounded(n, subblock_i, tail) ==
    IF n > capacity_read(subblock_i, tail)
    THEN scan_unbounded(n, subblock_i + 1, tail)
    ELSE subblock_i

\* switch (subblock_i) { ... default: ret = nullptr; assert(0); }, reached
\* with subblock_i after the scan read the table at NumSubblocks..subblock_i
DefaultBranch(subblock_i) ==
    [kind |-> "assert", ptr |-> NULL, index |-> subblock_i,
     reads |-> subblock_i - NumSubblocks + 1]

\* T* allocate(size_t n) with n larger than every capacity
BlockAllocator_allocate_oversize ==
    /\ ~Aborted
    /\ nalloc + ndealloc < MaxCalls
    /\ \E n \in OversizeRequests : \E tail \in PastTheEnd(n) :
          LET subblock_i == scan_unbounded(n, 0, tail)
          IN  /\ subblock_i \notin Classes
              /\ fault' = DefaultBranch(subblock_i)
    /\ nalloc' = nalloc + 1
    /\ UNCHANGED <<tparam, m_value, items, cfg, freed, thread, bfs, data, next, blk, link, sysAllocs, live, last, before,
                   fb, ndealloc>>

NextOversize ==
    \/ ~Aborted /\ BlockAllocator_allocate
    \/ ~Aborted /\ BlockAllocator_deallocate
    \/ BlockAllocator_allocate_oversize

SpecOversize == InitBlock /\ [][NextOversize]_vars

\* ------------------------------------------------------ derived quantities
\* the blocks pool i has obtained from the system, oldest first
BlocksOf(i) == SelectSeq(sysAllocs, LAMBDA b : b.pool = i)

\* the outstanding pointers of pool i
LivePtrs(i) == { a.ptr : a \in { x \in live : x.pool = i } }

\* slot addresses of one system allocation
SlotsOfBlock(b) == SlotAddrs(b.pool, b.base, cfg[b.pool].capacity)

\* the free list of pool i as the sequence of slots reached from the head by
\* following the embedded links; fuel stops a walk that does not reach NULL
RECURSIVE FreeWalk(_, _)
FreeWalk(p, fuel) ==
    IF p = NULL \/ fuel = 0 THEN <<>> ELSE <<p>> \o FreeWalk(link[p], fuel - 1)

TotalSlots(i) == cfg[i].capacity * Len(BlocksOf(i))

FreeList(i) == FreeWalk(next[i], TotalSlots(i) + 1)

\* the block chain of pool i, newest first, following prev from data
RECURSIVE ChainWalk(_, _)
ChainWalk(b, fuel) ==
    IF b = NULL \/ fuel = 0 \/ b \notin DOMAIN blk
    THEN <<>>
    ELSE <<b>> \o ChainWalk(blk[b].prev, fuel - 1)

Chain(i) == ChainWalk(data[i], Len(sysAllocs) + 1)

Range(f) == { f[x] : x \in DOMAIN f }

\* ------------------------------------------------------------------ misuse
\* One pool whose caller also breaks the contract: it deallocates pointers
\* that are already on the free list.  The caller uses the elements it is
\* given, which stores into their first bytes.
\* ptr of fault is the pointer of the most recent double free.
DoubleFree(p, in_a_row) ==
    [kind |-> IF in_a_row THEN "double free in a row" ELSE "double free",
     ptr |-> p, index |-> 0, reads |-> 0]

\* (alignment, sizeof(T), capacity) of the pools explored under misuse
MisuseConfigs ==
    { [alignment |-> 16,  value_size |-> 16, capacity |-> 2],
      [alignment |-> 128, value_size |-> 64, capacity |-> 1] }

InitMisuse ==
    /\ \E c \in MisuseConfigs :
          /\ cfg = [i \in {0} |-> c]
          /\ tparam = [T |-> c.value_size, blockSize |-> 0]
    /\ data = [i \in {0} |-> NULL]
    /\ next = [i \in {0} |-> NULL]
    /\ blk = <<>>
    /\ link = <<>>
    /\ sysAllocs = <<>>
    /\ live = {}
    /\ last = [i \in {0} |-> NoCall]
    /\ before = [i \in {0} |-> NoCall]
    /\ fb = NoFind
    /\ nalloc = 0
    /\ ndealloc = 0
    /\ fault = NoFault
    /\ freed = <<>>
    /\ m_value = NoAtomic
    /\ items = NoItems
    /\ thread = NoThreads
    /\ bfs = NoSearch

\* the caller calls allocate(1)
Misuse_allocate ==
    /\ nalloc + ndealloc < MisuseCalls
    /\ PoolAllocate(0, 0, 1)
    /\ nalloc' = nalloc + 1
    /\ UNCHANGED <<tparam, m_value, items, cfg, freed, thread, bfs, fb, ndealloc, fault>>

\* the caller returns one of its outstanding pointers: deallocate(p, 1)
Misuse_deallocate ==
    /\ nalloc + ndealloc < MisuseCalls
    /\ \E a \in live :
          /\ PoolDeallocate(0, 0, a.ptr, 1)
          /\ live' = live \ {a}
    /\ ndealloc' = ndealloc + 1
    /\ UNCHANGED <<tparam, m_value, items, cfg, freed, thread, bfs, fb, nalloc, fault>>

\* the caller calls deallocate(p, 1) with a pointer that is on the free list
Misuse_double_free ==
    /\ nalloc + ndealloc < MisuseCalls
    /\ \E p \in Range(FreeList(0)) :
          /\ PoolDeallocate(0, 0, p, 1)
          /\ fault' = DoubleFree(p, last[0].op = "deallocate" /\ last[0].ptr = p)
          /\ live' = { a \in live : a.ptr # p }
    /\ ndealloc' = ndealloc + 1
    /\ UNCHANGED <<tparam, m_value, items, cfg, freed, thread, bfs, fb, nalloc>>

\* the caller initialises the element it has just been given: it stores zeros
\* over the first bytes of *p, where the pool keeps p->next while p is free
Misuse_store ==
    /\ last[0].op = "allocate"
    /\ link[last[0].ptr] # NULL
    /\ link' = [link EXCEPT ![last[0].ptr] = NULL]
    /\ UNCHANGED <<tparam, m_value, items, cfg, freed, thread, bfs, data, next, blk, sysAllocs, live, last, before, fb,
                   nalloc, ndealloc, fault>>

NextMisuse ==
    \/ Misuse_allocate
    \/ Misuse_deallocate
    \/ Misuse_double_free
    \/ Misuse_store

SpecMisuse == InitMisuse /\ [][NextMisuse]_vars

\* ------------------------------------------------------------------ claims
IsPrefix(s, t) ==
    /\ Len(s) <= Len(t)
    /\ \A k \in 1..Len(s) : s[k] = t[k]

\* the system allocation whose slots contain p, as a set of block addresses
OwnerBlocks(p) ==
    { sysAllocs[j].base : j \in { k \in 1..Len(sysAllocs) : p \in SlotsOfBlock(sysAllocs[k]) } }

\* C1: LIFO reuse.  When the call before an allocate on a pool was
\* deallocate(p), the allocate returns exactly p.
C1_LifoReuse ==
    \A i \in Pools :
        (last[i].op = "allocate" /\ before[i].op = "deallocate")
            => last[i].ptr = before[i].ptr

\* C1 witness: an allocate that directly followed a deallocate, in a pool that
\* still had another free slot to offer.
C1_Witness ==
    /\ last[0].op = "allocate"
    /\ before[0].op = "deallocate"
    /\ next[0] # NULL

\* C2: free-list conservation.  In every state the free list is a finite,
\* duplicate-free chain of slots and its length plus the number of outstanding
\* allocations is capacity times the number of blocks grown; so the number of
\* allocate calls served before the next growth is that total minus the
\* outstanding allocations.
C2_Conservation ==
    \A i \in Pools :
        LET F == FreeList(i)
        IN  /\ Len(F) <= TotalSlots(i)
            /\ Cardinality(Range(F)) = Len(F)
            /\ Len(F) + Cardinality(LivePtrs(i)) = cfg[i].capacity * Len(BlocksOf(i))

\* C2 witness: two blocks grown, something given back, both free and
\* outstanding slots present.
C2_Witness ==
    /\ Len(BlocksOf(0)) >= 2
    /\ ndealloc >= 1
    /\ next[0] # NULL
    /\ live # {}

\* C3: growth correctness.  From a fresh pool with only allocate called, after
\* k calls there are ceil(k / c) blocks, the k results are pairwise distinct,
\* every block but the newest is used up, the newest holds the rest, and a call
\* requested a block exactly when it was call number 1, c+1, 2c+1, ...
C3_GrowthCorrect ==
    ndealloc = 0 =>
        LET c  == cfg[0].capacity
            B  == BlocksOf(0)
            nb == Len(B)
        IN  /\ nb = (nalloc + c - 1) \div c
            /\ Cardinality(LivePtrs(0)) = nalloc
            /\ \A j \in 1..nb :
                  Cardinality(LivePtrs(0) \cap SlotsOfBlock(B[j]))
                      = IF j < nb THEN c ELSE nalloc - c * (nb - 1)
            /\ last[0].op = "allocate" =>
                  /\ last[0].grew <=> ((nalloc - 1) % c = 0)
                  /\ last[0].ptr \in SlotsOfBlock(B[nb])

\* C3 witness: only allocate was called and the second block has just been
\* used up, in a pool whose blocks hold more than one slot.
C3_Witness ==
    /\ ndealloc = 0
    /\ cfg[0].capacity >= 2
    /\ nalloc = 2 * cfg[0].capacity
    /\ Len(sysAllocs) = 2

\* C4: alignment.  Every outstanding pointer returned by allocate is a multiple
\* of the pool's configured alignment.
C4_Aligned ==
    \A a \in live : a.ptr % cfg[a.pool].alignment = 0

\* request sizes around every class boundary of the table
BoundaryRequests ==
    {0} \cup { capacity_of(i) + d : i \in Classes, d \in {-1, 0} }
        \cup { capacity_of(i) + 1 : i \in Classes \ {NumSubblocks - 1} }

\* the class allocate selects for each boundary request
SelectedClass == [n \in BoundaryRequests |-> allocate_subblock_i(n)]

\* i is the smallest class with n <= capacity[i]
IsSmallestFit(n, i) ==
    /\ i \in Classes
    /\ n <= capacity_of(i)
    /\ i > 0 => capacity_of(i - 1) < n

\* the scan selects the smallest fitting class for every boundary request
SelectionIsSmallestFit ==
    \A n \in BoundaryRequests : IsSmallestFit(n, SelectedClass[n])

\* over the boundary requests the selected class never decreases as n grows
SelectionIsMonotone ==
    \A n1 \in BoundaryRequests : \A n2 \in BoundaryRequests :
        n1 <= n2 =>
            /\ SelectedClass[n1] <= SelectedClass[n2]
            /\ capacity_of(SelectedClass[n1]) <= capacity_of(SelectedClass[n2])

\* C5: size-class selection.  Every allocate(n) is served by the pool of the
\* smallest class whose capacity is at least n, from a slot of one of that
\* pool's blocks whose size is exactly capacity[i] elements of T; and the scan
\* selects the smallest fitting class for every n around every class boundary
\* from 0 up to the largest capacity.
C5_SmallestClass ==
    /\ \A k \in DOMAIN last :
          last[k].op = "allocate" =>
              LET i == last[k].pool
              IN  /\ IsSmallestFit(last[k].n, i)
                  /\ data_size(i) = tparam.T * capacity_of(i)
                  /\ \E j \in 1..Len(sysAllocs) :
                        /\ sysAllocs[j].pool = i
                        /\ last[k].ptr \in SlotsOfBlock(sysAllocs[j])
    /\ SelectionIsSmallestFit

\* C5 witness: allocate(10) was served by class 0 and allocate(17) by class 1.
C5_Witness ==
    /\ last[0].op = "allocate" /\ last[0].n = 10 /\ last[0].pool = 0
    /\ last[1].op = "allocate" /\ last[1].n = 17 /\ last[1].pool = 1

\* C6: size-class round trip.  When the call before allocate(n') among the
\* calls of n' 's class was deallocate(p, n), the allocate returns exactly p,
\* whatever was called for other classes in between.
C6_RoundTrip ==
    \A k \in DOMAIN last :
        (last[k].op = "allocate" /\ before[k].op = "deallocate"
            /\ ClassOf(last[k].n) = ClassOf(before[k].n))
            => /\ last[k].ptr = before[k].ptr
               /\ last[k].pool = before[k].pool

\* C6 witness: deallocate(p, n), then a call for another class, then
\* allocate(n') with n' # n of the same class.
C6_Witness ==
    \E k \in DOMAIN last :
        /\ last[k].op = "allocate"
        /\ before[k].op = "deallocate"
        /\ before[k].interleaved
        /\ last[k].n # before[k].n

\* C7: class selection monotonicity.  Of two outstanding arrays the one
\* requested with the larger n comes from a class of at least the capacity of
\* the other's; and over all boundary requests the selected class index and
\* capacity are non-decreasing in n.
C7_Monotone ==
    /\ \A a \in live : \A b \in live :
          a.n <= b.n =>
              /\ a.pool <= b.pool
              /\ capacity_of(a.pool) <= capacity_of(b.pool)
    /\ SelectionIsMonotone

\* C7 witness: two outstanding arrays of different classes.
C7_Witness ==
    \E a \in live : \E b \in live :
        /\ a.n < b.n
        /\ a.pool < b.pool

\* C8: find_block completeness.  For a pointer returned by allocate,
\* find_block returns the block whose slots contain it.
C8_FindBlockComplete ==
    fb.called => OwnerBlocks(fb.p) = {fb.ret}

\* C9: find_block soundness.  A block returned by find_block contains the
\* pointer: block <= p < block + header + capacity * data_size.
C9_FindBlockSound ==
    (fb.called /\ fb.ret # NULL) =>
        /\ fb.ret <= fb.p
        /\ fb.p < fb.ret + block_bytes(fb.pool, cfg[fb.pool].capacity)

C11_EmptyBlockReleased ==
    \A j \in 1..Len(sysAllocs) :
        LET b == sysAllocs[j]
        IN  (LivePtrs(b.pool) \cap SlotsOfBlock(b) = {})
                => /\ b.base \notin DOMAIN blk
                   /\ b.base \notin Range(Chain(b.pool))

FixedAllocateStep ==
    /\ nalloc' = nalloc + 1
    /\ next'[UniquePool] = next[UniquePool]
    /\ data'[UniquePool] = data[UniquePool]

C15_OversizeTraps ==
    [][ /\ (nalloc' = nalloc + 1 /\ last' = last) => fault' # fault
        /\ fault' # fault =>
              /\ fault'.kind = "assert"
              /\ fault'.index = NumSubblocks
              /\ fault'.reads = 0
              /\ data' = data /\ next' = next /\ blk' = blk /\ link' = link
              /\ live' = live /\ sysAllocs' = sysAllocs
      ]_vars

\* C16: element types narrower than the link are rejected.  In every pool that
\* exists the step between consecutive slots is at least sizeof(_::Node), and
\* in every block the 8-byte link ranges of any two distinct slots are
\* disjoint, so storing one slot's next never overwrites part of another's.
C16_SlotsHoldLinks ==
    \A j \in 1..Len(sysAllocs) :
        LET b == sysAllocs[j]
        IN  /\ sizeof_value_type(b.pool) >= SizeofNode
            /\ \A a1 \in SlotsOfBlock(b) : \A a2 \in SlotsOfBlock(b) :
                  a1 # a2 => ~Overlaps(a1, SizeofNode, a2, SizeofNode)

\* the call made in this step went through object o
CalledThrough(o) == last'[o].op # "none" /\ ~last'[o].interleaved

\* the most recent call before this step was deallocate through object o
JustDeallocated(o) == last[o].op = "deallocate" /\ ~last[o].interleaved

\* objects o1 and o2 behave as one pool in this step: they end with the same
\* data and next, and an allocate through o1 that directly follows a
\* deallocate(p) through o2 returns p
ActAsOnePool(o1, o2) ==
    /\ data'[o1] = data'[o2]
    /\ next'[o1] = next'[o2]
    /\ (nalloc' = nalloc + 1 /\ CalledThrough(o1) /\ JustDeallocated(o2)) =>
          last'[o1].ptr = last[o2].ptr

\* a call through o1 in this step leaves the pool state of o2 as it was
LeavesAlone(o1, o2) ==
    CalledThrough(o1) => (data'[o2] = data[o2] /\ next'[o2] = next[o2])

\* C17 as stated: static storage is one pool state per (T, alignment,
\* capacity).  Two objects of the same instantiation act as one pool; two
\* objects that differ in alignment or capacity (or type) are independent.
C17_SharedPerSignature ==
    [][ \A o1 \in Pools : \A o2 \in Pools \ {o1} :
            IF Signature(cfg[o1]) = Signature(cfg[o2])
            THEN ActAsOnePool(o1, o2)
            ELSE LeavesAlone(o1, o2)
      ]_vars

\* C17 amended: static storage is one pool state per element type.  Two
\* objects with the same T act as one pool whatever their alignment and
\* capacity; two objects with different T are independent.
C17_SharedPerType ==
    [][ \A o1 \in Pools : \A o2 \in Pools \ {o1} :
            IF cfg[o1].type = cfg[o2].type
            THEN ActAsOnePool(o1, o2)
            ELSE LeavesAlone(o1, o2)
      ]_vars

\* C17 witness: two objects of the same T and different alignment or capacity;
\* a slot deallocated through one has been returned by an allocate through
\* the other.
C17_Witness ==
    \E o1 \in Pools : \E o2 \in Pools \ {o1} :
        /\ cfg[o1].type = cfg[o2].type
        /\ Signature(cfg[o1]) # Signature(cfg[o2])
        /\ last[o1].op = "allocate" /\ ~last[o1].interleaved /\ ~last[o1].grew
        /\ last[o2].op = "deallocate"
        /\ last[o1].ptr = last[o2].ptr

\* the addresses inside the blocks that pool i obtained from the system
InBlocksOf(i, a) ==
    \E j \in 1..Len(sysAllocs) :
        /\ sysAllocs[j].pool = i
        /\ sysAllocs[j].base <= a
        /\ a < sysAllocs[j].base + sysAllocs[j].bytes

\* C18: no cross-class state.  A call allocate(n) or deallocate(p, n) with
\* class(n) = k leaves, for every other pool j, the free-list head and the
\* most-recent-block pointer as they were, requests no block for it, and
\* changes no block header and no free-list link outside pool k's blocks.
C18_NoCrossClassState ==
    [][ \A k \in Pools :
            (last'[k].op # "none" /\ ~last'[k].interleaved) =>
                /\ \A j \in Pools \ {k} :
                      /\ data'[j] = data[j]
                      /\ next'[j] = next[j]
                /\ \A n \in (Len(sysAllocs) + 1)..Len(sysAllocs') :
                      sysAllocs'[n].pool = k
                /\ IsPrefix(sysAllocs, sysAllocs')
                /\ \A b \in DOMAIN blk :
                      ~InBlocksOf(k, b) => (b \in DOMAIN blk' /\ blk'[b] = blk[b])
                /\ \A a \in DOMAIN link :
                      ~InBlocksOf(k, a) => (a \in DOMAIN link' /\ link'[a] = link[a])
                /\ \A b \in DOMAIN blk' \ DOMAIN blk : InBlocksOf(k, b)'
                /\ \A a \in DOMAIN link' \ DOMAIN link : InBlocksOf(k, a)'
      ]_vars

\* C18 witness: the last call was a deallocate for one class while the pool of
\* another class holds a block with a free slot and an outstanding one.
C18_Witness ==
    \E k \in Pools : \E j \in Pools \ {k} :
        /\ last[k].op = "deallocate"
        /\ ~last[k].interleaved
        /\ data[j] # NULL
        /\ next[j] # NULL
        /\ \E a \in live : a.pool = j

\* C19: no aliasing of live allocations.  Every allocate returned a pointer
\* that was not outstanding at the time, so the outstanding pointers are as
\* many as the allocate calls not yet undone by a deallocate; none of them is
\* null; and the element ranges of two outstanding pointers are disjoint,
\* within a block and across blocks: the one at the lower address ends before
\* the other begins.
C19_NoAliasing ==
    /\ Cardinality(live) = nalloc - ndealloc
    /\ \A a \in live :
          /\ a.ptr # NULL
          /\ \A b \in live :
                a.ptr < b.ptr => a.ptr + sizeof_value_type(a.pool) <= b.ptr

\* C19 witness: outstanding pointers in two different blocks, one of them
\* handed out again after a deallocate.
C19_Witness ==
    /\ ndealloc >= 1
    /\ last[0].op = "allocate"
    /\ before[0].op = "deallocate"
    /\ \E a \in live : \E b \in live : OwnerBlocks(a.ptr) # OwnerBlocks(b.ptr)

\* every deallocate call returns normally and pushes its argument, whatever it
\* is; and a deallocate of the pointer that the call before it deallocated
\* leaves that pointer at the head, linked to itself
DeallocateUnchecked ==
    ndealloc' = ndealloc + 1 =>
        /\ fault'.kind \in {"none", "double free", "double free in a row"}
        /\ last'[0].op = "deallocate"
        /\ next'[0] = last'[0].ptr
        /\ link'[last'[0].ptr] = next[0]
        /\ (last[0].op = "deallocate" /\ last[0].ptr = last'[0].ptr) =>
              link'[last'[0].ptr] = last'[0].ptr

\* C20 as stated: deallocate performs no validation, and once some pointer p
\* has been deallocated twice in a row every later allocate returns p and
\* requests no block (read for the allocate calls that do not directly follow
\* the deallocate of another pointer).
C20_DoubleFreeForever ==
    [][ /\ DeallocateUnchecked
        /\ ( /\ fault.kind = "double free in a row"
             /\ nalloc' = nalloc + 1
             /\ last[0].op = "deallocate" => last[0].ptr = fault.ptr ) =>
              /\ last'[0].ptr = fault.ptr
              /\ ~last'[0].grew
              /\ sysAllocs' = sysAllocs
      ]_vars

\* the head of the free list is linked to itself
SelfCycleAtHead == next[0] # NULL /\ link[next[0]] = next[0]

\* C20 amended: deallocate performs no validation; deallocate(p) twice in a
\* row leaves p at the head with p.next = p; and an allocate called while the
\* head is linked to itself returns the head, requests no block and leaves the
\* self-cycle at the head.
C20_DoubleFreeCycle ==
    [][ /\ DeallocateUnchecked
        /\ (SelfCycleAtHead /\ nalloc' = nalloc + 1) =>
              /\ last'[0].ptr = next[0]
              /\ ~last'[0].grew
              /\ sysAllocs' = sysAllocs
              /\ next'[0] = next[0]
              /\ link'[next[0]] = next[0]
      ]_vars

\* C20 witness: p was deallocated twice in a row and the two allocate calls
\* made since have both returned p, with p still at the head.
C20_Witness ==
    /\ fault.kind = "double free in a row"
    /\ last[0].op = "allocate" /\ last[0].ptr = fault.ptr
    /\ before[0].op = "allocate" /\ before[0].ptr = fault.ptr
    /\ next[0] = fault.ptr
    /\ SelfCycleAtHead

\* --------------------------------------------------- deallocate with another n
\* A block allocator whose caller may pass deallocate an n of another class
\* than the n the array was allocated with, once per behaviour.  fault records
\* that call: ptr is the pointer passed and index the class that allocated it.
MismatchedN(p, i) == [kind |-> "mismatched n", ptr |-> p, index |-> i, reads |-> 0]

\* deallocate that hands the pointer back to the pool whose block holds it,
\* whatever n says
BlockAllocator_deallocate_mismatched_to_owner ==
    /\ fault = NoFault
    /\ nalloc + ndealloc < MismatchCalls
    /\ \E a \in live : \E n \in RequestSizes :
          LET subblock_i == deallocate_subblock_i(n)
          IN  /\ subblock_i \in Classes
              /\ subblock_i # a.pool
              /\ PoolDeallocate(a.pool, ClassOf(n), a.ptr, n)
              /\ fault' = MismatchedN(a.ptr, a.pool)
              /\ live' = live \ {a}
    /\ ndealloc' = ndealloc + 1
    /\ UNCHANGED <<tparam, m_value, items, cfg, freed, thread, bfs, fb, nalloc>>

\* void deallocate(T* p, size_t n), called with an outstanding pointer and an n
\* of another class than the one that allocated it: the scan and the switch
\* see only n
BlockAllocator_deallocate_mismatched ==
    /\ fault = NoFault
    /\ nalloc + ndealloc < MismatchCalls
    /\ \E a \in live : \E n \in RequestSizes :
          LET subblock_i == deallocate_subblock_i(n)
          IN  /\ subblock_i \in Classes
              /\ subblock_i # a.pool
              /\ PoolDeallocate(subblock_i, ClassOf(n), a.ptr, n)
              /\ fault' = MismatchedN(a.ptr, a.pool)
              /\ live' = live \ {a}
    /\ ndealloc' = ndealloc + 1
    /\ UNCHANGED <<tparam, m_value, items, cfg, freed, thread, bfs, fb, nalloc>>

NextMismatch ==
    \/ nalloc + ndealloc < MismatchCalls /\ BlockAllocator_allocate
    \/ nalloc + ndealloc < MismatchCalls /\ BlockAllocator_deallocate
    \/ BlockAllocator_deallocate_mismatched

SpecMismatch == InitBlock /\ [][NextMismatch]_vars

\* C21: a mismatched n on deallocate is not detected.  deallocate(p, n') of a
\* pointer allocated by class i with class(n') = j # i returns normally; it
\* leaves p at the head of pool j's free list, linked to pool j's old head,
\* and leaves pool i's head, most recent block and block headers as they
\* were; and when the next call for class j is an allocate, it returns p
\* without requesting a block, although p is a slot of a block of pool i of
\* data_size(i) bytes, fewer than class j's arrays need when j > i.
C21_MismatchUndetected ==
    [][ /\ fault' # fault =>
              LET p == fault'.ptr
                  i == fault'.index
              IN  \E j \in Pools \ {i} :
                    /\ fault'.kind = "mismatched n"
                    /\ last'[j].op = "deallocate" /\ last'[j].pool = j
                    /\ last'[j].ptr = p
                    /\ ClassOf(last'[j].n) = j
                    /\ next'[j] = p
                    /\ link'[p] = next[j]
                    /\ data'[j] = data[j]
                    /\ next'[i] = next[i]
                    /\ data'[i] = data[i]
                    /\ blk' = blk
                    /\ sysAllocs' = sysAllocs
                    /\ InBlocksOf(i, p)
        /\ \A j \in Pools :
              ( /\ fault.kind = "mismatched n"
                /\ last[j].op = "deallocate" /\ last[j].ptr = fault.ptr
                /\ j # fault.index
                /\ nalloc' = nalloc + 1
                /\ last'[j].op = "allocate" /\ ~last'[j].interleaved ) =>
                    /\ last'[j].ptr = fault.ptr
                    /\ last'[j].pool = j
                    /\ ~last'[j].grew
                    /\ sysAllocs' = sysAllocs
                    /\ InBlocksOf(fault.index, last'[j].ptr)
                    /\ ~InBlocksOf(j, last'[j].ptr)
                    /\ j > fault.index =>
                          /\ capacity_of(fault.index) < capacity_of(j)
                          /\ data_size(fault.index) < data_size(j)
      ]_vars

\* C21 witness: an array of a smaller class was deallocated with an n of a
\* larger class, and the allocate for the larger class made next returned it.
C21_Witness ==
    \E j \in Pools :
        /\ fault.kind = "mismatched n"
        /\ j > fault.index
        /\ last[j].op = "allocate" /\ last[j].ptr = fault.ptr
        /\ before[j].op = "deallocate" /\ before[j].ptr = fault.ptr
        /\ \E a \in live : a.pool = j /\ a.ptr = fault.ptr /\ InBlocksOf(fault.index, a.ptr)

\* ------------------------------------------------- Allocator<T, alignment>
\* One cyber::Allocator object (the struct has no data members): allocate and
\* deallocate go straight to ::operator new and ::operator delete.
\* (alignment, sizeof(T)) of the allocators explored; capacity is unused
AllocatorConfigs ==
    { [alignment |-> 128, value_size |-> 32, capacity |-> 0],
      [alignment |-> 64,  value_size |-> 4,  capacity |-> 0],
      [alignment |-> 32,  value_size |-> 24, capacity |-> 0] }

\* element counts passed to Allocator::allocate
AllocatorCounts == {1, 2, 3}

\* __STDCPP_DEFAULT_NEW_ALIGNMENT__: what ::operator new(bytes) guarantees
\* when no align_val_t is passed
Allocator_align_value_default(i) == 16

\* static constexpr std::align_val_t align_value = alignment
Allocator_align_value(i) == cfg[i].alignment

\* the outstanding system allocation that starts at p (0 when there is none)
OutstandingAt(p) ==
    LET S == { j \in 1..Len(sysAllocs) :
                 /\ sysAllocs[j].base = p
                 /\ \A k \in 1..Len(freed) : freed[k].alloc # j }
    IN  IF S = {} THEN 0 ELSE CHOOSE j \in S : TRUE

\* ::operator delete(p, align_value)
operator_delete(p) == Append(freed, [base |-> p, alloc |-> OutstandingAt(p)])

InitAligned ==
    /\ \E c \in AllocatorConfigs :
          /\ cfg = [i \in {0} |-> c]
          /\ tparam = [T |-> c.value_size, blockSize |-> 0]
    /\ data = [i \in {0} |-> NULL]
    /\ next = [i \in {0} |-> NULL]
    /\ blk = <<>>
    /\ link = <<>>
    /\ sysAllocs = <<>>
    /\ live = {}
    /\ last = [i \in {0} |-> NoCall]
    /\ before = [i \in {0} |-> NoCall]
    /\ fb = NoFind
    /\ nalloc = 0
    /\ ndealloc = 0
    /\ fault = NoFault
    /\ freed = <<>>
    /\ m_value = NoAtomic
    /\ items = NoItems
    /\ thread = NoThreads
    /\ bfs = NoSearch

\* value_type* allocate(std::size_t n):
\*   return ::operator new(sizeof(value_type) * n, align_value)
Allocator_allocate ==
    /\ nalloc + ndealloc < MaxCalls
    /\ \E n \in AllocatorCounts :
       \E p \in operator_new(sizeof_value_type(0) * n, Allocator_align_value(0)) :
          /\ sysAllocs' = Append(sysAllocs,
                            [base |-> p, bytes |-> sizeof_value_type(0) * n,
                             align |-> Allocator_align_value(0), pool |-> 0])
          /\ live' = live \cup {[pool |-> 0, ptr |-> p, n |-> n]}
          /\ Log(0, Call("allocate", 0, p, n, FALSE))
    /\ nalloc' = nalloc + 1
    /\ UNCHANGED <<tparam, m_value, items, cfg, data, next, blk, link, fb, ndealloc, fault, freed,
                   thread, bfs>>

\* void deallocate(value_type* p, std::size_t n), of an outstanding pointer:
\*   ::operator delete(p, align_value)
Allocator_deallocate ==
    /\ nalloc + ndealloc < MaxCalls
    /\ \E a \in live :
          /\ freed' = operator_delete(a.ptr)
          /\ live' = live \ {a}
          /\ Log(0, Call("deallocate", 0, a.ptr, a.n, FALSE))
    /\ ndealloc' = ndealloc + 1
    /\ UNCHANGED <<tparam, m_value, items, cfg, data, next, blk, link, sysAllocs, fb, nalloc, fault,
                   thread, bfs>>

NextAligned == Allocator_allocate \/ Allocator_deallocate

SpecAligned == InitAligned /\ [][NextAligned]_vars

\* C22: every pointer returned by Allocator<T, alignment>::allocate(n) is a
\* multiple of alignment (128 for the test's std::vector of 32-byte elements),
\* it is the start of a system allocation of sizeof(T) * n bytes, and the
\* allocator keeps no state: it has no data or next and writes no block
\* header or link, so what a call returns depends only on the system heap.
C22_AlignedStateless ==
    /\ \A a \in live :
          /\ a.ptr # NULL
          /\ a.ptr % cfg[a.pool].alignment = 0
          /\ OutstandingAt(a.ptr) # 0
          /\ sysAllocs[OutstandingAt(a.ptr)].bytes = cfg[a.pool].value_size * a.n
    /\ last[0].op = "allocate" => last[0].ptr % cfg[0].alignment = 0
    /\ data[0] = NULL /\ next[0] = NULL
    /\ blk = <<>> /\ link = <<>>

\* C22 witness: the allocator of the test (32-byte elements, alignment 128)
\* has served allocate(1) after an earlier allocation was given back, and
\* another allocation is outstanding.
C22_Witness ==
    /\ cfg[0].alignment = 128
    /\ last[0].op = "allocate" /\ last[0].n = 1
    /\ Len(freed) >= 1
    /\ Cardinality(live) >= 2

\* -------------------------------------------------------- BreadthFirstSearch
\* One BreadthFirstSearch object and a graph of BFSNode objects at addresses
\* 1..NumNodes; graph[a] is the pNext stored in the node at a.  bfs holds the
\* graph, the object's members (path, frontier, node_to_prev_node) and the
\* arguments, locals and position of the FindPathReversed call in progress.
NumNodes == 3
\* elements the frontier deque can hold before the memory for it is exhausted
MaxFrontier == 3

BFSNodes == 1..NumNodes

\* the process was ended by the store through the end() iterator
EndDereferenced(p) ==
    [kind |-> "end() dereferenced", ptr |-> p, index |-> 0, reads |-> 0]

\* frontier.push_back(p) throwing std::bad_alloc
BadAlloc(p) == [kind |-> "bad_alloc", ptr |-> p, index |-> 0, reads |-> 0]

InitBFS ==
    /\ tparam = [T |-> 0, blockSize |-> 0]
    /\ cfg = <<>>
    /\ data = <<>>
    /\ next = <<>>
    /\ blk = <<>>
    /\ link = <<>>
    /\ sysAllocs = <<>>
    /\ live = {}
    /\ last = <<>>
    /\ before = <<>>
    /\ fb = NoFind
    /\ nalloc = 0
    /\ ndealloc = 0
    /\ fault = NoFault
    /\ freed = <<>>
    /\ m_value = NoAtomic
    /\ items = NoItems
    /\ thread = NoThreads
    /\ \E g \in [BFSNodes -> BFSNodes \cup {NULL}] :
          bfs = [graph |-> g, pc |-> "idle", pStart |-> NULL, pEnd |-> NULL,
                 pCurNode |-> NULL, pNextNode |-> NULL,
                 path |-> <<>>, frontier |-> <<>>, node_to_prev_node |-> <<>>,
                 ret |-> "none"]

\* node_to_prev_node[p] read with operator[]: value-initialised when absent
prev_node(map, p) == IF p \in DOMAIN map THEN map[p] ELSE NULL

\* while (pCurNode) { path.push_back(pCurNode);
\*                    pCurNode = node_to_prev_node[pCurNode]; }
RECURSIVE build_path(_, _, _)
build_path(map, pCurNode, fuel) ==
    IF pCurNode = NULL \/ fuel = 0
    THEN <<>>
    ELSE <<pCurNode>> \o build_path(map, prev_node(map, pCurNode), fuel - 1)

\* lines 8-13: the call is entered; the members are cleared and seeded
FindPathReversed_enter ==
    /\ fault = NoFault
    /\ bfs.pc \in {"idle", "returned"}
    /\ \E pStart \in BFSNodes : \E pEnd \in BFSNodes :
          bfs' = [bfs EXCEPT !.pc = "outer", !.pStart = pStart, !.pEnd = pEnd,
                             !.pCurNode = NULL, !.pNextNode = NULL,
                             !.path = <<>>, !.frontier = <<pStart>>,
                             !.node_to_prev_node = (pStart :> NULL),
                             !.ret = "none"]
    /\ UNCHANGED <<tparam, m_value, items, cfg, data, next, blk, link, sysAllocs, live, last, before,
                   fb, nalloc, ndealloc, fault, freed, thread>>

\* lines 18-35 and 49: one test of the outer loop and what follows it up to
\* the inner loop
FindPathReversed_outer ==
    /\ fault = NoFault
    /\ bfs.pc = "outer"
    /\ IF bfs.frontier = <<>>
       THEN bfs' = [bfs EXCEPT !.pc = "returned", !.ret = "nullptr"]
       ELSE LET pCurNode == Head(bfs.frontier)
            IN  IF pCurNode = bfs.pEnd
                THEN bfs' = [bfs EXCEPT
                               !.pc = "returned", !.ret = "&path",
                               !.frontier = Tail(@),
                               !.pCurNode = NULL,
                               !.path = build_path(bfs.node_to_prev_node, pCurNode,
                                                   NumNodes + 1)]
                ELSE bfs' = [bfs EXCEPT
                               !.pc = "inner",
                               !.frontier = Tail(@),
                               !.pCurNode = pCurNode,
                               !.pNextNode = bfs.graph[pCurNode]]
    /\ UNCHANGED <<tparam, m_value, items, cfg, data, next, blk, link, sysAllocs, live, last, before,
                   fb, nalloc, ndealloc, fault, freed, thread>>

\* lines 36-46: one test of the inner loop and its body.  pNextNode is not
\* assigned in the body.  When find returns end(), prevItr->second = pCurNode
\* stores through the end() iterator, which is undefined: the store ends the
\* process, or it lands outside the map's elements and the loop goes on.
\* The frontier holds at most MaxFrontier elements: a push_back beyond that
\* finds no memory and leaves the call with std::bad_alloc.
FindPathReversed_inner ==
    /\ fault = NoFault
    /\ bfs.pc = "inner"
    /\ IF bfs.pNextNode = NULL
       THEN /\ bfs' = [bfs EXCEPT !.pc = "outer"]
            /\ UNCHANGED fault
       ELSE IF bfs.pNextNode \in DOMAIN bfs.node_to_prev_node
            THEN UNCHANGED <<bfs, fault>>
            ELSE IF Len(bfs.frontier) >= MaxFrontier
            THEN /\ fault' = BadAlloc(bfs.pNextNode)
                 /\ UNCHANGED bfs
            ELSE /\ bfs' = [bfs EXCEPT !.frontier = Append(@, bfs.pNextNode)]
                 /\ \/ fault' = EndDereferenced(bfs.pNextNode)
                    \/ UNCHANGED fault
    /\ UNCHANGED <<tparam, m_value, items, cfg, data, next, blk, link, sysAllocs, live, last, before,
                   fb, nalloc, ndealloc, freed, thread>>

NextBFS ==
    \/ FindPathReversed_enter
    \/ FindPathReversed_outer
    \/ FindPathReversed_inner

SpecBFS == InitBFS /\ [][NextBFS]_vars

\* the scheduler keeps running the thread that executes the call
SpecBFSLive == SpecBFS /\ WF_vars(NextBFS)

\* the node reached from p by following pNext k times (NULL once the links end)
RECURSIVE Follow(_, _)
Follow(p, k) ==
    IF k = 0 \/ p = NULL THEN p ELSE Follow(bfs.graph[p], k - 1)

\* pEnd is reachable from pStart by following pNext links
Reachable(pStart, pEnd) == \E k \in 0..NumNodes : Follow(pStart, k) = pEnd

\* the number of links from pStart to the first occurrence of pEnd
Distance(pStart, pEnd) ==
    CHOOSE k \in 0..NumNodes :
        /\ Follow(pStart, k) = pEnd
        /\ \A j \in 0..(k - 1) : Follow(pStart, j) # pEnd

\* the path from pStart to pEnd, last node first
ReversedPath(pStart, pEnd) ==
    LET d == Distance(pStart, pEnd)
    IN  [j \in 1..(d + 1) |-> Follow(pStart, d + 1 - j)]

\* the call in progress has returned what the doc comment promises
ReturnedAsDocumented ==
    /\ bfs.pc = "returned"
    /\ IF Reachable(bfs.pStart, bfs.pEnd)
       THEN bfs.ret = "&path" /\ bfs.path = ReversedPath(bfs.pStart, bfs.pEnd)
       ELSE bfs.ret = "nullptr"

\* C23: FindPathReversed(pStart, pEnd) returns the path in reverse order
\* (pEnd first, pStart last, each element followed by the node it was
\* discovered from) whenever pEnd is reachable from pStart along pNext links,
\* and nullptr when it is not: a call that has returned has returned just
\* that, and every call that is entered comes to return it.
C23_ReturnsReversedPath ==
    /\ [](bfs.pc = "returned" => ReturnedAsDocumented)
    /\ (bfs.pc \in {"outer", "inner"}) ~> ReturnedAsDocumented

\* C35: FindPathReversed terminates on every finite node graph: for every
\* pStart and pEnd, also when pStart # pEnd and pStart has a non-null pNext,
\* and on graphs with cycles, a call that has been entered eventually returns.
\* A call that was ended by the undefined store or by std::bad_alloc counts as
\* ended here, so what violates the formula is a call that runs forever.
C35_Terminates ==
    (bfs.pc \in {"outer", "inner"}) ~> (bfs.pc = "returned" \/ fault # NoFault)

\* ------------------------------------------------------ UniquePoolAllocator
\* A program with one UniquePoolAllocator and a bounded number of calls.
NextUnique == UniquePool_allocate \/ UniquePool_deallocate

SpecUnique == Init /\ [][NextUnique]_vars

\* the addresses of the blocks pool i has grown, oldest first
BlockBases(i) == [j \in 1..Len(BlocksOf(i)) |-> BlocksOf(i)[j].base]

Reverse(s) == [j \in 1..Len(s) |-> s[Len(s) + 1 - j]]

\* C24: block-chain well-formedness of a pool that grows (the
\* UniquePoolAllocator) after any sequence of allocate and deallocate.  data is
\* null exactly when the pool has grown no block; otherwise data is the most
\* recently grown block and its next is null, and the oldest block's prev is
\* null; for any two blocks a and b, a.next = b exactly when b.prev = a; and
\* following prev from data visits every block ever grown exactly once,
\* newest first.
C24_ChainWellFormed ==
    LET i == UniquePool
        B == BlockBases(i)
    IN  /\ data[i] = NULL <=> Len(B) = 0
        /\ Len(B) > 0 =>
              /\ data[i] = B[Len(B)]
              /\ blk[data[i]].next = NULL
              /\ blk[B[1]].prev = NULL
        /\ \A a \in Range(B) : \A b \in Range(B) :
              blk[a].next = b <=> blk[b].prev = a
        /\ Chain(i) = Reverse(B)
        /\ Cardinality(Range(B)) = Len(B)
        /\ DOMAIN blk = Range(B)

\* C24 witness: the pool has grown three blocks and an element has been given
\* back.
C24_Witness ==
    /\ Len(BlocksOf(UniquePool)) >= 3
    /\ Len(Chain(UniquePool)) >= 3
    /\ last[UniquePool].op = "deallocate"

\* C25: growth happens only on exhaustion.  An allocate entered with a
\* non-null free-list head returns that head, makes the head's next the new
\* head and changes nothing else: no system allocation, data, every block
\* header and every link as they were.  An allocate requests a block exactly
\* when the head is null on entry, and then requests exactly one.
C25_GrowOnlyWhenExhausted ==
    [][ nalloc' = nalloc + 1 =>
          \A i \in Pools :
              /\ last'[i].op = "allocate"
              /\ last'[i].grew <=> next[i] = NULL
              /\ next[i] # NULL =>
                    /\ last'[i].ptr = next[i]
                    /\ next'[i] = link[next[i]]
                    /\ sysAllocs' = sysAllocs
                    /\ data' = data
                    /\ blk' = blk
                    /\ link' = link
              /\ next[i] = NULL =>
                    /\ Len(sysAllocs') = Len(sysAllocs) + 1
                    /\ data'[i] = sysAllocs'[Len(sysAllocs')].base
                    /\ data'[i] # data[i]
      ]_vars

\* C25 witness: the pool holds two blocks, and its last allocate found a free
\* slot and requested nothing.
C25_Witness ==
    /\ Len(BlocksOf(UniquePool)) >= 2
    /\ last[UniquePool].op = "allocate"
    /\ ~last[UniquePool].grew

\* ------------------------------------------------------- free(void*), free()
\* One pool whose caller also gives blocks back: free(void* block_data)
\* releases one block and free() releases all.  Memory that has been passed to
\* ::operator delete keeps the bytes last stored in it until ::operator new
\* hands it out again, so blk and link keep the entries of released blocks.
\* An access to released memory is undefined: it behaves like an access to
\* ordinary memory, or it ends the process; fault records the first.
ReleaseConfigs ==
    { [alignment |-> 16,  value_size |-> 16, capacity |-> 2],
      [alignment |-> 128, value_size |-> 64, capacity |-> 1] }

\* calls to allocate and deallocate, and blocks released, per behaviour
ReleaseCalls == 3

\* system allocation j has not been passed to ::operator delete (F: the
\* ::operator delete history)
IsOutstanding(F, j) == \A k \in 1..Len(F) : F[k].alloc # j

\* address a lies in a system allocation that has not been released
InOutstanding(F, a) ==
    \E j \in 1..Len(sysAllocs) :
        /\ sysAllocs[j].base <= a
        /\ a < sysAllocs[j].base + sysAllocs[j].bytes
        /\ IsOutstanding(F, j)

\* the outstanding system allocation that starts at p (0 when there is none)
outstanding_at(F, p) ==
    LET S == { j \in 1..Len(sysAllocs) :
                 sysAllocs[j].base = p /\ IsOutstanding(F, j) }
    IN  IF S = {} THEN 0 ELSE CHOOSE j \in S : TRUE

\* an access to released memory at p, and whether it ended the process
UseAfterFree(p, ended) ==
    [kind |-> IF ended THEN "use after free, ended" ELSE "use after free",
     ptr |-> p, index |-> 0, reads |-> 0]

\* a loop over the block chain that does not come to an end
EndlessLoop(p) == [kind |-> "endless loop", ptr |-> p, index |-> 0, reads |-> 0]

\* assert(block_data) / assert(block_del), failing
NullBlock == [kind |-> "assert", ptr |-> NULL, index |-> 0, reads |-> 0]

\* the process has ended or hangs
Ended == fault.kind \in {"assert", "use after free, ended", "endless loop"}

\* free(void*) without the store to block_next->prev
free_without_prev_fixup(R, block_data) ==
    LET block_prev == R.blk[block_data].prev
        block_next == R.blk[block_data].next
        touched    == {block_data} \cup ({block_prev} \ {NULL})
        B1 == IF block_prev # NULL
              THEN [R.blk EXCEPT ![block_prev].next = block_next] ELSE R.blk
    IN  [R EXCEPT !.blk   = B1,
                  !.freed = Append(@, [base  |-> block_data,
                                       alloc |-> outstanding_at(R.freed, block_data)]),
                  !.uaf   = @ \/ \E t \in touched : ~InOutstanding(R.freed, t)]

\* void free(void* block_data), on R = [blk, freed, uaf, hang]: the block
\* headers, the ::operator delete history, whether released memory has been
\* accessed, and whether a loop failed to end
free(R, block_data) ==
    LET block_prev == R.blk[block_data].prev
        block_next == R.blk[block_data].next
        touched    == {block_data} \cup ({block_prev, block_next} \ {NULL})
        B1 == IF block_prev # NULL
              THEN [R.blk EXCEPT ![block_prev].next = block_next] ELSE R.blk
        B2 == IF block_next # NULL
              THEN [B1 EXCEPT ![block_next].prev = block_prev] ELSE B1
    IN  [R EXCEPT !.blk   = B2,
                  !.freed = Append(@, [base  |-> block_data,
                                       alloc |-> outstanding_at(R.freed, block_data)]),
                  !.uaf   = @ \/ \E t \in touched : ~InOutstanding(R.freed, t)]

\* free(): "seek first block"
\*   block_prev = block_del->prev;
\*   while (block_prev) { block_del = block_prev; block_prev = block_prev->prev; }
RECURSIVE seek_first(_, _, _)
seek_first(block_del, uaf, fuel) ==
    LET block_prev == blk[block_del].prev
        uaf1       == uaf \/ ~InOutstanding(freed, block_del)
    IN  IF block_prev = NULL
        THEN [block |-> block_del, uaf |-> uaf1, hang |-> FALSE]
        ELSE IF fuel = 0
             THEN [block |-> block_del, uaf |-> uaf1, hang |-> TRUE]
             ELSE seek_first(block_prev, uaf1, fuel - 1)

\* the second loop of free() with the link read after the block is released:
\*   while (block_del) { this->free(block_del); block_del = block_del->next; }
RECURSIVE free_each_reads_after_free(_, _, _)
free_each_reads_after_free(R, block_del, fuel) ==
    IF block_del = NULL
    THEN R
    ELSE IF fuel = 0
         THEN [R EXCEPT !.hang = TRUE]
         ELSE LET R1 == free(R, block_del)
                  block_next == R1.blk[block_del].next
                  R2 == [R1 EXCEPT !.uaf = @ \/ ~InOutstanding(R1.freed, block_del)]
              IN  free_each_reads_after_free(R2, block_next, fuel - 1)

\* free(): "free each block from first to last"
\*   while (block_del) { block_next = block_del->next; this->free(block_del);
\*                       block_del = block_next; }
RECURSIVE free_each(_, _, _)
free_each(R, block_del, fuel) ==
    IF block_del = NULL
    THEN R
    ELSE IF fuel = 0
         THEN [R EXCEPT !.hang = TRUE]
         ELSE LET block_next == R.blk[block_del].next
                  R0 == [R EXCEPT !.uaf = @ \/ ~InOutstanding(R.freed, block_del)]
              IN  free_each(free(R0, block_del), block_next, fuel - 1)

\* the addresses of the blocks of pool i that have not been released, oldest
\* first
OutstandingBases(i) ==
    LET idx == SelectSeq([j \in 1..Len(sysAllocs) |-> j],
                         LAMBDA j : sysAllocs[j].pool = i /\ IsOutstanding(freed, j))
    IN  [k \in 1..Len(idx) |-> sysAllocs[idx[k]].base]

\* A call that accesses released memory when uaf holds: the access behaves as
\* on ordinary memory and the call has its Effect, or it ends the process and
\* the call has none (Frame).
Undefined(uaf, p, Effect, Frame) ==
    \/ ~uaf /\ Effect /\ UNCHANGED fault
    \/ uaf /\ Effect /\ fault' = (IF fault = NoFault THEN UseAfterFree(p, FALSE) ELSE fault)
    \/ uaf /\ Frame /\ fault' = UseAfterFree(p, TRUE)

InitRelease ==
    /\ \E c \in ReleaseConfigs :
          /\ cfg = [i \in {0} |-> c]
          /\ tparam = [T |-> c.value_size, blockSize |-> 0]
    /\ data = [i \in {0} |-> NULL]
    /\ next = [i \in {0} |-> NULL]
    /\ blk = <<>>
    /\ link = <<>>
    /\ sysAllocs = <<>>
    /\ live = {}
    /\ last = [i \in {0} |-> NoCall]
    /\ before = [i \in {0} |-> NoCall]
    /\ fb = NoFind
    /\ nalloc = 0
    /\ ndealloc = 0
    /\ fault = NoFault
    /\ freed = <<>>
    /\ m_value = NoAtomic
    /\ items = NoItems
    /\ thread = NoThreads
    /\ bfs = NoSearch

\* allocate(1).  The growth branch stores block_old->next after malloc has
\* returned; the pop reads cur->next.
Release_allocate ==
    /\ ~Ended
    /\ nalloc + ndealloc < ReleaseCalls
    /\ IF next[0] = NULL
       THEN \E base \in operator_new(block_bytes(0, cfg[0].capacity), cfg[0].alignment) :
               LET r == pop(grow(Mem, 0, base), 0)
                   block_old == data[0]
               IN  Undefined(block_old # NULL /\ block_old # base
                                 /\ ~InOutstanding(freed, block_old),
                             block_old,
                             /\ Commit(r.mem)
                             /\ sysAllocs' = Append(sysAllocs,
                                               [base |-> base,
                                                bytes |-> block_bytes(0, cfg[0].capacity),
                                                align |-> cfg[0].alignment, pool |-> 0])
                             /\ live' = live \cup {[pool |-> 0, ptr |-> r.ret, n |-> 1]}
                             /\ Log(0, Call("allocate", 0, r.ret, 1, TRUE)),
                             /\ Commit(malloc(Mem, 0, cfg[0].capacity, base))
                             /\ sysAllocs' = Append(sysAllocs,
                                               [base |-> base,
                                                bytes |-> block_bytes(0, cfg[0].capacity),
                                                align |-> cfg[0].alignment, pool |-> 0])
                             /\ UNCHANGED <<live, last, before>>)
       ELSE LET r == pop(Mem, 0)
            IN  Undefined(~InOutstanding(freed, next[0]),
                          next[0],
                          /\ Commit(r.mem)
                          /\ live' = live \cup {[pool |-> 0, ptr |-> r.ret, n |-> 1]}
                          /\ Log(0, Call("allocate", 0, r.ret, 1, FALSE))
                          /\ UNCHANGED sysAllocs,
                          UNCHANGED <<data, next, blk, link, sysAllocs, live, last, before>>)
    /\ nalloc' = nalloc + 1
    /\ UNCHANGED <<tparam, m_value, items, cfg, freed, thread, bfs, fb, ndealloc>>

\* deallocate(p, 1) of a pointer the caller holds: the store to p->next
Release_deallocate ==
    /\ ~Ended
    /\ nalloc + ndealloc < ReleaseCalls
    /\ \E a \in live :
          Undefined(~InOutstanding(freed, a.ptr),
                    a.ptr,
                    /\ PoolDeallocate(0, 0, a.ptr, 1)
                    /\ live' = live \ {a},
                    UNCHANGED <<data, next, blk, link, sysAllocs, live, last, before>>)
    /\ ndealloc' = ndealloc + 1
    /\ UNCHANGED <<tparam, m_value, items, cfg, freed, thread, bfs, fb, nalloc>>

\* free(block_data) that also keeps the pool off the released block: data
\* moves to the previous block when the most recent one is released
release_block_moves_data ==
    /\ ~Ended
    /\ Len(freed) < ReleaseCalls
    /\ \E block_data \in Range(OutstandingBases(0)) \cup {NULL} :
          /\ Log(0, Call("free(void*)", 0, block_data, 0, FALSE))
          /\ IF block_data = NULL
             THEN /\ fault' = NullBlock
                  /\ UNCHANGED <<blk, freed, data>>
             ELSE LET R == free([blk |-> blk, freed |-> freed,
                                 uaf |-> FALSE, hang |-> FALSE], block_data)
                  IN  Undefined(R.uaf, block_data,
                                /\ blk' = R.blk
                                /\ freed' = R.freed
                                /\ data' = [data EXCEPT ![0] =
                                              IF @ = block_data
                                              THEN blk[block_data].prev ELSE @],
                                UNCHANGED <<blk, freed, data>>)
    /\ UNCHANGED <<tparam, m_value, items, cfg, next, link, sysAllocs, live, thread, bfs, fb,
                   nalloc, ndealloc>>

\* free(block_data), called with a block of the pool that has not been
\* released, or with nullptr
release_block ==
    /\ ~Ended
    /\ Len(freed) < ReleaseCalls
    /\ \E block_data \in Range(OutstandingBases(0)) \cup {NULL} :
          /\ Log(0, Call("free(void*)", 0, block_data, 0, FALSE))
          /\ IF block_data = NULL
             THEN /\ fault' = NullBlock
                  /\ UNCHANGED <<blk, freed>>
             ELSE LET R == free([blk |-> blk, freed |-> freed,
                                 uaf |-> FALSE, hang |-> FALSE], block_data)
                  IN  Undefined(R.uaf, block_data,
                                blk' = R.blk /\ freed' = R.freed,
                                UNCHANGED <<blk, freed>>)
    /\ UNCHANGED <<tparam, m_value, items, cfg, data, next, link, sysAllocs, live, thread, bfs, fb,
                   nalloc, ndealloc>>

\* free()
release_all ==
    /\ ~Ended
    /\ Len(freed) < ReleaseCalls
    /\ Log(0, Call("free()", 0, NULL, 0, FALSE))
    /\ IF data[0] = NULL
       THEN /\ fault' = NullBlock
            /\ UNCHANGED <<blk, freed>>
       ELSE LET fuel  == Len(sysAllocs) + 1
                first == seek_first(data[0], FALSE, fuel)
                R     == free_each([blk |-> blk, freed |-> freed,
                                    uaf |-> first.uaf, hang |-> FALSE],
                                   first.block, fuel)
            IN  IF first.hang \/ R.hang
                THEN /\ fault' = EndlessLoop(data[0])
                     /\ UNCHANGED <<blk, freed>>
                ELSE Undefined(R.uaf, data[0],
                               blk' = R.blk /\ freed' = R.freed,
                               UNCHANGED <<blk, freed>>)
    /\ UNCHANGED <<tparam, m_value, items, cfg, data, next, link, sysAllocs, live, thread, bfs, fb,
                   nalloc, ndealloc>>

NextRelease ==
    \/ Release_allocate
    \/ Release_deallocate
    \/ release_block
    \/ release_all

SpecRelease == InitRelease /\ [][NextRelease]_vars

\* the step is a call of free(void*) / of free()
ReleaseBlockStep ==
    last'[0].op = "free(void*)" /\ nalloc' = nalloc /\ ndealloc' = ndealloc
ReleaseAllStep ==
    last'[0].op = "free()" /\ nalloc' = nalloc /\ ndealloc' = ndealloc

\* the blocks in B are doubly linked in the order of B, with null at both ends
LinkedInOrder(B, H) ==
    /\ Len(B) > 0 => (H[B[1]].prev = NULL /\ H[B[Len(B)]].next = NULL)
    /\ \A k \in 1..(Len(B) - 1) :
          /\ H[B[k]].next = B[k + 1]
          /\ H[B[k + 1]].prev = B[k]

\* C26: free(b) on a block b of a consistent chain, with p = b.prev and
\* n = b.next before the call.  Afterwards p.next = n (if p exists) and
\* n.prev = p (if n exists); b has been passed to ::operator delete exactly
\* once and no released memory was accessed; no other link of any other block
\* has changed; and the blocks that remain are the ones that were there
\* without b, doubly linked in the same order.
C26_ReleaseBlockUnlinks ==
    [][ (ReleaseBlockStep /\ last'[0].ptr # NULL
            /\ LinkedInOrder(OutstandingBases(0), blk)) =>
          LET b == last'[0].ptr
              p == blk[b].prev
              n == blk[b].next
              B == OutstandingBases(0)
          IN  /\ fault' = fault
              /\ p # NULL => blk'[p].next = n
              /\ n # NULL => blk'[n].prev = p
              /\ Len(freed') = Len(freed) + 1
              /\ freed'[Len(freed')].base = b
              /\ freed'[Len(freed')].alloc = outstanding_at(freed, b)
              /\ freed'[Len(freed')].alloc # 0
              /\ \A k \in 1..Len(freed) : freed'[k] = freed[k]
              /\ \A x \in DOMAIN blk \ {b} :
                    /\ x # n => blk'[x].prev = blk[x].prev
                    /\ x # p => blk'[x].next = blk[x].next
              /\ OutstandingBases(0)' = SelectSeq(B, LAMBDA x : x # b)
              /\ LinkedInOrder(OutstandingBases(0)', blk')
      ]_vars

\* C26 witness: a block with an older and a newer neighbour has been released
\* and the two are now linked to each other.
C26_Witness ==
    /\ fault = NoFault
    /\ last[0].op = "free(void*)"
    /\ last[0].ptr # NULL
    /\ LET b == last[0].ptr
       IN  /\ blk[b].prev # NULL
           /\ blk[b].next # NULL
           /\ blk[blk[b].prev].next = blk[b].next
           /\ Len(OutstandingBases(0)) >= 2

\* C27: free() on a pool with k >= 1 blocks, consistently chained, whose data
\* is the most recent of them.  The walk along prev from data ends at the
\* oldest block; every one of the k blocks is passed to ::operator delete
\* exactly once, oldest first; and no link of a block is accessed after that
\* block has been released.
C27_ReleaseAllFreesEachOnce ==
    [][ (ReleaseAllStep /\ Len(OutstandingBases(0)) >= 1
            /\ data[0] = OutstandingBases(0)[Len(OutstandingBases(0))]
            /\ LinkedInOrder(OutstandingBases(0), blk)) =>
          LET B == OutstandingBases(0)
              k == Len(B)
          IN  /\ Chain(0) = Reverse(B)
              /\ fault' = fault
              /\ Len(freed') = Len(freed) + k
              /\ \A j \in 1..Len(freed) : freed'[j] = freed[j]
              /\ \A j \in 1..k :
                    /\ freed'[Len(freed) + j].base = B[j]
                    /\ freed'[Len(freed) + j].alloc = outstanding_at(freed, B[j])
                    /\ freed'[Len(freed) + j].alloc # 0
              /\ OutstandingBases(0)' = <<>>
      ]_vars

\* C27 witness: free() has released a chain of three blocks.
C27_Witness ==
    /\ fault = NoFault
    /\ last[0].op = "free()"
    /\ Len(freed) >= 3
    /\ Len(sysAllocs) = Len(freed)
    /\ before[0].op # "free(void*)"

\* the step is an allocate call that returned to its caller
AllocateReturned ==
    /\ nalloc' = nalloc + 1
    /\ fault'.kind \notin {"assert", "use after free, ended", "endless loop"}

\* C32: free(b) stores only to the prev/next links of b's neighbours.  The
\* pool's data and next, every free-list link and the caller's pointers are
\* as before, so when b was the most recent block data still refers to it
\* although it has been released; and an allocate that finds the list
\* non-empty returns its head, whether or not the head lies in a released
\* block.
C32_ReleaseBlockFrame ==
    [][ /\ (ReleaseBlockStep /\ last'[0].ptr # NULL) =>
              LET b == last'[0].ptr
                  p == blk[b].prev
                  n == blk[b].next
              IN  /\ data' = data
                  /\ next' = next
                  /\ link' = link
                  /\ live' = live
                  /\ sysAllocs' = sysAllocs
                  /\ DOMAIN blk' = DOMAIN blk
                  /\ \A x \in DOMAIN blk :
                        /\ x # n => blk'[x].prev = blk[x].prev
                        /\ x # p => blk'[x].next = blk[x].next
                  /\ (b = data[0] /\ Len(freed') > Len(freed)) =>
                        /\ data'[0] = b
                        /\ ~InOutstanding(freed', data'[0])
        /\ (AllocateReturned /\ next[0] # NULL) =>
              /\ last'[0].op = "allocate"
              /\ last'[0].ptr = next[0]
              /\ [pool |-> 0, ptr |-> next[0], n |-> 1] \in live'
              /\ next'[0] = link[next[0]]
              /\ sysAllocs' = sysAllocs
      ]_vars

\* C32 witness: the most recent block was released while one of its slots was
\* on the free list; data still refers to it, and the allocate that followed
\* returned that slot.
C32_Witness ==
    /\ last[0].op = "allocate"
    /\ before[0].op = "free(void*)"
    /\ before[0].ptr = data[0]
    /\ data[0] # NULL
    /\ ~InOutstanding(freed, data[0])
    /\ ~last[0].grew
    /\ ~InOutstanding(freed, last[0].ptr)
    /\ data[0] < last[0].ptr
    /\ last[0].ptr < data[0] + block_bytes(0, cfg[0].capacity)
    /\ fault.kind = "use after free"

\* C33: after free() has released the blocks, the pool is as constructed:
\* data = nullptr and next = nullptr; and the allocate that follows free()
\* requests a new block and returns a slot of it, not an address inside a
\* released block.
C33_ReleaseAllResets ==
    /\ [][ (ReleaseAllStep /\ Len(freed') > Len(freed)) =>
              /\ data'[0] = NULL
              /\ next'[0] = NULL
         ]_vars
    /\ [](  (last[0].op = "allocate" /\ before[0].op = "free()"
                /\ before[0].interleaved = FALSE) =>
              /\ last[0].grew
              /\ InOutstanding(freed, last[0].ptr) )

\* ------------------------------------ FixedPoolAllocator and pool in lockstep
\* A caller that drives a fresh UniquePoolAllocator (pool 0) and a
\* FixedPoolAllocator (pool 1) of the same capacity with the same sequence of
\* calls, keeping at most capacity allocations outstanding: every step is one
\* call on each of the two.
LockstepConfigs ==
    { [alignment |-> 16, value_size |-> 16, capacity |-> 3],
      [alignment |-> 64, value_size |-> 32, capacity |-> 2],
      [alignment |-> 16, value_size |-> 8,  capacity |-> 4] }

\* pairs of calls made per behaviour
LockstepCalls == 6

\* the index of slot p within the single block of pool i:
\* (p - data_begin) / sizeof(value_type)
SlotIndex(i, p) ==
    LET data_begin == IF i = FixedPool THEN data[i] ELSE data[i] + SizeofBlock
    IN  (p - data_begin) \div sizeof_value_type(i)

InitLockstep ==
    /\ \E c \in LockstepConfigs :
          /\ cfg = [i \in {UniquePool, FixedPool} |-> c]
          /\ tparam = [T |-> c.value_size, blockSize |-> 0]
    /\ \E base \in { Stride(fixed_bytes(FixedPool, cfg[FixedPool].capacity),
                            cfg[FixedPool].alignment) * k : k \in 1..HeapSlots } :
          LET M0 == [data |-> [i \in {UniquePool, FixedPool} |-> NULL],
                     next |-> [i \in {UniquePool, FixedPool} |-> NULL],
                     blk  |-> <<>>,
                     link |-> <<>>]
              M  == FixedPool_malloc(M0, FixedPool, cfg[FixedPool].capacity, base)
          IN  /\ data = M.data
              /\ next = M.next
              /\ blk  = M.blk
              /\ link = M.link
              /\ sysAllocs = << [base  |-> base,
                                 bytes |-> fixed_bytes(FixedPool, cfg[FixedPool].capacity),
                                 align |-> cfg[FixedPool].alignment,
                                 pool  |-> FixedPool] >>
    /\ live = {}
    /\ last = [i \in {UniquePool, FixedPool} |-> NoCall]
    /\ before = [i \in {UniquePool, FixedPool} |-> NoCall]
    /\ fb = NoFind
    /\ nalloc = 0
    /\ ndealloc = 0
    /\ fault = NoFault
    /\ freed = <<>>
    /\ m_value = NoAtomic
    /\ items = NoItems
    /\ thread = NoThreads
    /\ bfs = NoSearch

\* allocate(1) on the UniquePoolAllocator, then allocate(1) on the
\* FixedPoolAllocator (whose assert(next) holds: fewer than capacity
\* allocations are outstanding)
Lockstep_allocate ==
    /\ nalloc + ndealloc < LockstepCalls
    /\ Cardinality(LivePtrs(UniquePool)) < cfg[UniquePool].capacity
    /\ next[FixedPool] # NULL
    /\ LET Calls(M, grew) ==
               LET u == pop(M, UniquePool)
                   f == pop(u.mem, FixedPool)
               IN  /\ Commit(f.mem)
                   /\ live' = live \cup {[pool |-> UniquePool, ptr |-> u.ret, n |-> 1],
                                         [pool |-> FixedPool, ptr |-> f.ret, n |-> 1]}
                   /\ last' = [i \in {UniquePool, FixedPool} |->
                                 Call("allocate", i,
                                      IF i = UniquePool THEN u.ret ELSE f.ret,
                                      1, i = UniquePool /\ grew)]
                   /\ before' = last
       IN  IF next[UniquePool] = NULL
           THEN \E base \in operator_new(block_bytes(UniquePool, cfg[UniquePool].capacity),
                                         cfg[UniquePool].alignment) :
                   /\ Calls(grow(Mem, UniquePool, base), TRUE)
                   /\ sysAllocs' = Append(sysAllocs,
                                     [base |-> base,
                                      bytes |-> block_bytes(UniquePool,
                                                            cfg[UniquePool].capacity),
                                      align |-> cfg[UniquePool].alignment,
                                      pool |-> UniquePool])
           ELSE /\ Calls(Mem, FALSE)
                /\ UNCHANGED sysAllocs
    /\ nalloc' = nalloc + 1
    /\ UNCHANGED <<tparam, m_value, items, cfg, freed, thread, bfs, fb, ndealloc, fault>>

\* deallocate of the same slot on both: the caller returns an outstanding
\* pointer of the UniquePoolAllocator and the outstanding pointer of the
\* FixedPoolAllocator it obtained in the same step
Lockstep_deallocate ==
    /\ nalloc + ndealloc < LockstepCalls
    /\ \E a \in live : \E b \in live :
          /\ a.pool = UniquePool /\ b.pool = FixedPool
          /\ SlotIndex(UniquePool, a.ptr) = SlotIndex(FixedPool, b.ptr)
          /\ Commit(push(push(Mem, UniquePool, a.ptr), FixedPool, b.ptr))
          /\ live' = live \ {a, b}
          /\ last' = [i \in {UniquePool, FixedPool} |->
                        Call("deallocate", i, IF i = UniquePool THEN a.ptr ELSE b.ptr,
                             1, FALSE)]
          /\ before' = last
    /\ ndealloc' = ndealloc + 1
    /\ UNCHANGED <<tparam, m_value, items, cfg, sysAllocs, freed, thread, bfs, fb, nalloc, fault>>

NextLockstep == Lockstep_allocate \/ Lockstep_deallocate

SpecLockstep == InitLockstep /\ [][NextLockstep]_vars

\* C28: a FixedPoolAllocator has the free-list semantics of a pool.  Driven
\* by the same calls with at most capacity allocations outstanding, the two
\* return the same slot index in every call: the outstanding slot indices of
\* the two are the same set, the free lists of the two list the same indices
\* in the same order, the k-th of the first capacity allocates made without a
\* deallocate returns index k - 1, and an allocate that follows a deallocate
\* returns the index just given back.
C28_SameSlotIndex ==
    LET idx(i, S) == { SlotIndex(i, p) : p \in S }
        U == FreeList(UniquePool)
        F == FreeWalk(next[FixedPool], cfg[FixedPool].capacity + 1)
    IN  /\ last[UniquePool].op = last[FixedPool].op
        /\ last[UniquePool].op # "none" =>
              /\ SlotIndex(UniquePool, last[UniquePool].ptr)
                    = SlotIndex(FixedPool, last[FixedPool].ptr)
              /\ idx(UniquePool, LivePtrs(UniquePool)) = idx(FixedPool, LivePtrs(FixedPool))
              /\ [k \in 1..Len(U) |-> SlotIndex(UniquePool, U[k])]
                    = [k \in 1..Len(F) |-> SlotIndex(FixedPool, F[k])]
              /\ Len(BlocksOf(UniquePool)) = 1
        /\ (last[FixedPool].op = "allocate" /\ ndealloc = 0) =>
              SlotIndex(FixedPool, last[FixedPool].ptr) = nalloc - 1
        /\ (last[FixedPool].op = "allocate" /\ before[FixedPool].op = "deallocate") =>
              last[FixedPool].ptr = before[FixedPool].ptr

\* C28 witness: in pools of at least three slots, two slots were given back
\* and the one given back last has been handed out again by both.
C28_Witness ==
    /\ cfg[FixedPool].capacity >= 3
    /\ ndealloc >= 2
    /\ last[FixedPool].op = "allocate"
    /\ before[FixedPool].op = "deallocate"
    /\ next[FixedPool] # NULL
    /\ SlotIndex(FixedPool, last[FixedPool].ptr) # 0

\* ------------------------------------------- block_capacities of all classes
\* (sizeof(T), blockSize) of the block allocator storages instantiated
CapacityParams ==
    { [T |-> t, blockSize |-> b] :
        t \in {1, 4, 8, 24, 63},
        b \in {0, 16, 128, 4096, 65536, 1048576, 1073741824} }

\* no pool member is declared yet
InitCapacities ==
    /\ tparam \in CapacityParams
    /\ cfg = <<>>
    /\ data = <<>>
    /\ next = <<>>
    /\ blk = <<>>
    /\ link = <<>>
    /\ sysAllocs = <<>>
    /\ live = {}
    /\ last = <<>>
    /\ before = <<>>
    /\ fb = NoFind
    /\ nalloc = 0
    /\ ndealloc = 0
    /\ fault = NoFault
    /\ freed = <<>>
    /\ m_value = NoAtomic
    /\ items = NoItems
    /\ thread = NoThreads
    /\ bfs = NoSearch

\* UniquePoolAllocator<Storage_T::SubBlock_i, 4096, Storage_T::block_capacities[i]> pool_i;
\* the members are declared, and constructed empty, in index order
declare_pool ==
    /\ \E i \in Classes :
          /\ i \notin DOMAIN cfg
          /\ \A j \in Classes : j < i => j \in DOMAIN cfg
          /\ cfg' = (i :> [alignment  |-> 4096,
                           value_size |-> tparam.T * capacity_of(i),
                           capacity   |-> block_capacities(tparam.T, tparam.blockSize, i)])
                    @@ cfg
          /\ data' = (i :> NULL) @@ data
          /\ next' = (i :> NULL) @@ next
          /\ last' = (i :> NoCall) @@ last
          /\ before' = (i :> NoCall) @@ before
    /\ UNCHANGED <<tparam, m_value, items, freed, thread, bfs, blk, link, sysAllocs, live, fb,
                   nalloc, ndealloc, fault>>

NextCapacities == declare_pool

SpecCapacities == InitCapacities /\ [][NextCapacities]_vars

\* sizeof(T) * subblock_capacities[i] does not exceed 0x7FFFFFFFF
WithinSizeLimit(T, i) ==
    T <= SubblockSizeLimitDiv16 \div (capacity_of(i) \div 16)

\* q is floor(b / s): the q with q * s <= b < (q + 1) * s
IsFloorQuotient(q, b, s) ==
    /\ q >= 0
    /\ q * s <= b
    /\ b - q * s < s

\* C29: for every class i whose array byte size s_i = sizeof(T) *
\* subblock_capacities[i] does not exceed 0x7FFFFFFFF, the capacity of pool_i
\* (the number of class-i arrays per growth block) is max(1, floor(blockSize /
\* s_i)); it is never 0, it does not increase with i, and it is 1 for every
\* class whose array is larger than blockSize.
C29_BlockCapacities ==
    \A i \in DOMAIN cfg :
        LET s == tparam.T * capacity_of(i)
            b == tparam.blockSize
            c == cfg[i].capacity
        IN  WithinSizeLimit(tparam.T, i) =>
              /\ c >= 1
              /\ \/ c = 1 /\ b - s < s
                 \/ c > 1 /\ IsFloorQuotient(c, b, s)
              /\ s > b => c = 1
              /\ i > 0 => c <= cfg[i - 1].capacity
              /\ cfg[i].value_size = s

\* C29 witness: all 22 pools are declared; the smallest class gets many arrays
\* per growth block, a middle class exactly the quotient, and the classes
\* larger than blockSize get one.
C29_Witness ==
    /\ DOMAIN cfg = Classes
    /\ \A i \in Classes : WithinSizeLimit(tparam.T, i)
    /\ cfg[0].capacity > cfg[1].capacity
    /\ cfg[1].capacity > 1
    /\ \E i \in Classes :
          /\ tparam.T * capacity_of(i) > tparam.blockSize
          /\ cfg[i].capacity = 1
    /\ cfg[21].capacity = 1

\* ------------------------------------------ two threads on one pool, no lock
\* allocate(1) calls each thread makes
ThreadCalls == 1

Threads == {1, 2}

\* (alignment, sizeof(T), capacity) of the pool the threads share
ThreadConfigs ==
    { [alignment |-> 16, value_size |-> 16, capacity |-> 2],
      [alignment |-> 64, value_size |-> 32, capacity |-> 1] }

\* the content of memory that ::operator new returned and nothing has stored to
Indeterminate == -2

NullDereference(t) == [kind |-> "null dereference", ptr |-> NULL, index |-> t, reads |-> 0]
UninitializedRead(p, t) == [kind |-> "uninitialized read", ptr |-> p, index |-> t, reads |-> 0]

\* a thread outside allocate
Idle == [pc |-> "idle", block_old |-> NULL, block |-> NULL, cur |-> NULL,
         calls |-> 0, raced |-> FALSE, rets |-> <<>>]

InitThreads ==
    /\ \E c \in ThreadConfigs :
          /\ cfg = [i \in {0} |-> c]
          /\ tparam = [T |-> c.value_size, blockSize |-> 0]
    /\ data = [i \in {0} |-> NULL]
    /\ next = [i \in {0} |-> NULL]
    /\ blk = <<>>
    /\ link = <<>>
    /\ sysAllocs = <<>>
    /\ live = {}
    /\ last = [i \in {0} |-> NoCall]
    /\ before = [i \in {0} |-> NoCall]
    /\ fb = NoFind
    /\ nalloc = 0
    /\ ndealloc = 0
    /\ fault = NoFault
    /\ freed = <<>>
    /\ m_value = NoAtomic
    /\ items = NoItems
    /\ thread = [t \in Threads |-> Idle]
    /\ bfs = NoSearch

\* Thread t executes one statement and is left as rec.  A statement executed
\* while another thread is inside allocate makes the two calls overlap; both
\* threads remember that.
Step(t, rec) ==
    thread' = [u \in Threads |->
                 IF u = t
                 THEN [rec EXCEPT !.raced = @ \/ \E v \in Threads \ {t} : thread[v].pc # "idle"]
                 ELSE [thread[u] EXCEPT !.raced = @ \/ thread[u].pc # "idle"]]

\* if (this->next == nullptr)
allocate_test(t) ==
    /\ fault = NoFault
    /\ thread[t].pc = "idle"
    /\ thread[t].calls < ThreadCalls
    /\ Step(t, [thread[t] EXCEPT !.pc = IF next[0] = NULL THEN "block_old" ELSE "cur"])
    /\ nalloc' = nalloc + 1
    /\ UNCHANGED <<tparam, m_value, items, cfg, freed, bfs, data, next, blk, link, sysAllocs, live, last,
                   before, fb, ndealloc, fault>>

\* _::Block* block_old = reinterpret_cast<_::Block*>(this->data);
allocate_block_old(t) ==
    /\ fault = NoFault
    /\ thread[t].pc = "block_old"
    /\ Step(t, [thread[t] EXCEPT !.pc = "new", !.block_old = data[0]])
    /\ UNCHANGED <<tparam, m_value, items, cfg, freed, bfs, data, next, blk, link, sysAllocs, live, last,
                   before, fb, nalloc, ndealloc, fault>>

\* malloc: this->data = ::operator new(bytes, align_value);
malloc_new(t) ==
    /\ fault = NoFault
    /\ thread[t].pc = "new"
    /\ \E base \in operator_new(block_bytes(0, cfg[0].capacity), cfg[0].alignment) :
          /\ data' = [data EXCEPT ![0] = base]
          /\ blk' = (base :> [prev |-> Indeterminate, next |-> Indeterminate]) @@ blk
          /\ link' = [a \in SlotAddrs(0, base, cfg[0].capacity) |-> Indeterminate] @@ link
          /\ sysAllocs' = Append(sysAllocs,
                            [base |-> base,
                             bytes |-> block_bytes(0, cfg[0].capacity),
                             align |-> cfg[0].alignment, pool |-> 0])
    /\ Step(t, [thread[t] EXCEPT !.pc = "header"])
    /\ UNCHANGED <<tparam, m_value, items, cfg, freed, bfs, next, live, last, before, fb, nalloc,
                   ndealloc, fault>>

\* malloc: block = reinterpret_cast<_::Block*>(this->data);
\*         block->prev = nullptr; block->next = nullptr;
malloc_header(t) ==
    /\ fault = NoFault
    /\ thread[t].pc = "header"
    /\ blk' = [blk EXCEPT ![data[0]] = [prev |-> NULL, next |-> NULL]]
    /\ Step(t, [thread[t] EXCEPT !.pc = "head", !.block = data[0]])
    /\ UNCHANGED <<tparam, m_value, items, cfg, freed, bfs, data, next, link, sysAllocs, live, last,
                   before, fb, nalloc, ndealloc, fault>>

\* malloc: this->next = reinterpret_cast<_::Node*>(data_begin);
malloc_head(t) ==
    /\ fault = NoFault
    /\ thread[t].pc = "head"
    /\ next' = [next EXCEPT ![0] = thread[t].block + SizeofBlock]
    /\ Step(t, [thread[t] EXCEPT !.pc = "nodes"])
    /\ UNCHANGED <<tparam, m_value, items, cfg, freed, bfs, data, blk, link, sysAllocs, live, last,
                   before, fb, nalloc, ndealloc, fault>>

\* malloc: the loop that links the slots, and the terminator of the last one
malloc_nodes(t) ==
    /\ fault = NoFault
    /\ thread[t].pc = "nodes"
    /\ LET data_begin == thread[t].block + SizeofBlock
           data_last  == data_begin + (cfg[0].capacity - 1) * sizeof_value_type(0)
       IN  link' = [a \in SlotAddrs(0, thread[t].block, cfg[0].capacity) |->
                       IF a = data_last THEN NULL ELSE a + sizeof_value_type(0)] @@ link
    /\ Step(t, [thread[t] EXCEPT !.pc = "block_new"])
    /\ UNCHANGED <<tparam, m_value, items, cfg, freed, bfs, data, next, blk, sysAllocs, live, last,
                   before, fb, nalloc, ndealloc, fault>>

\* _::Block* block_new = reinterpret_cast<_::Block*>(this->data);
\* block_new->prev = block_old;
\* if (block_old) { block_old->next = block_new; }
allocate_link_blocks(t) ==
    /\ fault = NoFault
    /\ thread[t].pc = "block_new"
    /\ LET block_new == data[0]
           block_old == thread[t].block_old
           B == [blk EXCEPT ![block_new].prev = block_old]
       IN  blk' = IF block_old # NULL
                  THEN [B EXCEPT ![block_old].next = block_new]
                  ELSE B
    /\ Step(t, [thread[t] EXCEPT !.pc = "cur"])
    /\ UNCHANGED <<tparam, m_value, items, cfg, freed, bfs, data, next, link, sysAllocs, live, last,
                   before, fb, nalloc, ndealloc, fault>>

\* _::Node* cur = this->next;
allocate_cur(t) ==
    /\ fault = NoFault
    /\ thread[t].pc = "cur"
    /\ Step(t, [thread[t] EXCEPT !.pc = "pop", !.cur = next[0]])
    /\ UNCHANGED <<tparam, m_value, items, cfg, freed, bfs, data, next, blk, link, sysAllocs, live, last,
                   before, fb, nalloc, ndealloc, fault>>

\* the last statements of allocate without the store to this->next
allocate_pop_keeps_head(t) ==
    /\ fault = NoFault
    /\ thread[t].pc = "pop"
    /\ live' = live \cup {[pool |-> 0, ptr |-> thread[t].cur, n |-> 1]}
    /\ Step(t, [thread[t] EXCEPT !.pc = "idle", !.calls = @ + 1,
                                 !.rets = Append(@, thread[t].cur),
                                 !.block_old = NULL, !.block = NULL, !.cur = NULL])
    /\ UNCHANGED <<tparam, m_value, items, cfg, freed, bfs, data, next, blk, link, sysAllocs, last,
                   before, fb, nalloc, ndealloc, fault>>

\* this->next = cur->next; return reinterpret_cast<value_type*>(cur);
allocate_pop(t) ==
    /\ fault = NoFault
    /\ thread[t].pc = "pop"
    /\ LET cur == thread[t].cur
       IN  IF cur = NULL
           THEN /\ fault' = NullDereference(t)
                /\ Step(t, thread[t])
                /\ UNCHANGED <<next, live>>
           ELSE IF link[cur] = Indeterminate
           THEN /\ fault' = UninitializedRead(cur, t)
                /\ Step(t, thread[t])
                /\ UNCHANGED <<next, live>>
           ELSE /\ next' = [next EXCEPT ![0] = link[cur]]
                /\ live' = live \cup {[pool |-> 0, ptr |-> cur, n |-> 1]}
                /\ Step(t, [thread[t] EXCEPT !.pc = "idle", !.calls = @ + 1,
                                             !.rets = Append(@, cur),
                                             !.block_old = NULL, !.block = NULL,
                                             !.cur = NULL])
                /\ UNCHANGED fault
    /\ UNCHANGED <<tparam, m_value, items, cfg, freed, bfs, data, blk, link, sysAllocs, last,
                   before, fb, nalloc, ndealloc>>

NextThreads ==
    \E t \in Threads :
        \/ allocate_test(t)
        \/ allocate_block_old(t)
        \/ malloc_new(t)
        \/ malloc_header(t)
        \/ malloc_head(t)
        \/ malloc_nodes(t)
        \/ allocate_link_blocks(t)
        \/ allocate_cur(t)
        \/ allocate_pop(t)

SpecThreads == InitThreads /\ [][NextThreads]_vars

\* the slots allocate has returned to thread t
Returned(t) == Range(thread[t].rets)

\* no statement of one thread's allocate ran while another thread was inside
\* allocate: the calls made so far were serialized
Serialized == \A t \in Threads : ~thread[t].raced

\* two calls, one of each thread, returned the same slot
SameSlotReturned ==
    \E t, u \in Threads : t # u /\ Returned(t) \cap Returned(u) # {}

\* C30 (serialized half): when the allocate(1) calls of the two threads on the
\* same pool are serialized, no two of them return the same slot, and no call
\* ends in a fault.
C30_SerializedDistinct ==
    Serialized =>
        /\ ~SameSlotReturned
        /\ fault = NoFault
        /\ \A t \in Threads :
              \A j, k \in 1..Len(thread[t].rets) :
                  j < k => thread[t].rets[j] # thread[t].rets[k]

\* C30 (interleaved half): with the reads and writes of the head interleaved,
\* both threads' allocate(1) return the same slot, with no fault raised; both
\* calls took the non-growing path on a pool that another call had grown.
C30_Witness ==
    /\ fault = NoFault
    /\ ~Serialized
    /\ \A t \in Threads : thread[t].pc = "idle"
    /\ SameSlotReturned
    /\ Len(sysAllocs) = 1

\* ------------------------------------------------------------- CX::atomic<T>
\* read-modify-write operator calls each thread makes
AtomicCalls == 1

\* CX::atomic_uint8: T = uint8_t
AtomicBits == 8
AtomicModulus == 2 ^ AtomicBits

\* constructor arguments and right-hand sides explored
AtomicInitialValues == {0, 1, 255}
AtomicRhs == 3

AtomicOps == {"++", "--", "+=", "-=", "|=", "&=", "^="}

\* a | b, a & b, a ^ b on the low `bits` bits
RECURSIVE Bitwise(_, _, _, _)
Bitwise(op, a, b, bits) ==
    IF bits = 0 THEN 0
    ELSE LET x == a % 2
             y == b % 2
             z == CASE op = "|=" -> IF x + y > 0 THEN 1 ELSE 0
                    [] op = "&=" -> x * y
                    [] op = "^=" -> (x + y) % 2
         IN  z + 2 * Bitwise(op, a \div 2, b \div 2, bits - 1)

\* the statement between the two barriers: ++v, --v, v += rhs, ...
\* computed in int and converted back to uint8_t
Compute(op, v, rhs) ==
    CASE op = "++" -> (v + 1) % AtomicModulus
      [] op = "--" -> (v - 1) % AtomicModulus
      [] op = "+=" -> (v + rhs) % AtomicModulus
      [] op = "-=" -> (v - rhs) % AtomicModulus
      [] OTHER     -> Bitwise(op, v, rhs, AtomicBits)

\* a thread outside every operator of the object
AtomicIdle == [pc |-> "idle", op |-> "none", rhs |-> 0, v |-> 0,
               calls |-> 0, raced |-> FALSE, done |-> <<>>]

\* atomic(T v) { m_value = v; }
InitAtomic ==
    /\ tparam = [T |-> 1, blockSize |-> 0]
    /\ cfg = <<>>
    /\ data = <<>>
    /\ next = <<>>
    /\ blk = <<>>
    /\ link = <<>>
    /\ sysAllocs = <<>>
    /\ live = {}
    /\ \E v \in AtomicInitialValues :
          /\ m_value = v
          /\ last = [i \in {0} |-> Call("atomic", 0, NULL, v, FALSE)]
    /\ before = [i \in {0} |-> NoCall]
    /\ fb = NoFind
    /\ nalloc = 0
    /\ ndealloc = 0
    /\ fault = NoFault
    /\ freed = <<>>
    /\ items = NoItems
    /\ thread = [t \in Threads |-> AtomicIdle]
    /\ bfs = NoSearch

\* T v = m_value; CX_COMPILER_BARRIER();
atomic_load(t) ==
    /\ thread[t].pc = "idle"
    /\ thread[t].calls < AtomicCalls
    /\ \E op \in AtomicOps :
          Step(t, [thread[t] EXCEPT !.pc = "compute", !.op = op,
                                    !.rhs = IF op \in {"++", "--"} THEN 1 ELSE AtomicRhs,
                                    !.v = m_value])
    /\ UNCHANGED <<tparam, m_value, items, cfg, freed, bfs, data, next, blk, link,
                   sysAllocs, live, last, before, fb, nalloc, ndealloc, fault>>

\* ++v; CX_COMPILER_BARRIER();
atomic_compute(t) ==
    /\ thread[t].pc = "compute"
    /\ Step(t, [thread[t] EXCEPT !.pc = "store",
                                 !.v = Compute(thread[t].op, thread[t].v, thread[t].rhs)])
    /\ UNCHANGED <<tparam, m_value, items, cfg, freed, bfs, data, next, blk, link,
                   sysAllocs, live, last, before, fb, nalloc, ndealloc, fault>>

\* the operator without its last statement: the computed value is not stored
atomic_store_skipped(t) ==
    /\ thread[t].pc = "store"
    /\ Step(t, [thread[t] EXCEPT !.pc = "idle", !.calls = @ + 1, !.v = 0,
                                 !.done = Append(@, [op |-> thread[t].op,
                                                     rhs |-> thread[t].rhs])])
    /\ UNCHANGED <<tparam, m_value, items, cfg, freed, bfs, data, next, blk, link,
                   sysAllocs, live, last, before, fb, nalloc, ndealloc, fault>>

\* m_value = v;
atomic_store(t) ==
    /\ thread[t].pc = "store"
    /\ m_value' = thread[t].v
    /\ Step(t, [thread[t] EXCEPT !.pc = "idle", !.calls = @ + 1, !.v = 0,
                                 !.done = Append(@, [op |-> thread[t].op,
                                                     rhs |-> thread[t].rhs])])
    /\ UNCHANGED <<tparam, items, cfg, freed, bfs, data, next, blk, link,
                   sysAllocs, live, last, before, fb, nalloc, ndealloc, fault>>

NextAtomic ==
    \E t \in Threads :
        \/ atomic_load(t)
        \/ atomic_compute(t)
        \/ atomic_store(t)

SpecAtomic == InitAtomic /\ [][NextAtomic]_vars

\* each thread has completed exactly one operator call and is outside the object
OneCallEach ==
    \A t \in Threads : thread[t].pc = "idle" /\ Len(thread[t].done) = 1

\* the call thread t completed, applied to x
Applied(t, x) == Compute(thread[t].done[1].op, x, thread[t].done[1].rhs)

\* both threads executed operator++
BothIncrement == \A t \in Threads : thread[t].done[1].op = "++"

\* C31: the read-modify-write operators are a load, a compute and a store that
\* other threads' statements can come between.  After two threads have each
\* completed one operator on an object constructed with v, the value is that of
\* the two operators applied one after the other when the calls did not
\* overlap, and otherwise possibly that of one operator alone applied to v: the
\* other update is lost.  For two operator++ calls the value is v + 2 when
\* serialized and v + 1 or v + 2 when not.
C31_LostUpdate ==
    OneCallEach =>
        LET v == last[0].n
            serial == { Applied(1, Applied(2, v)), Applied(2, Applied(1, v)) }
            alone  == { Applied(t, v) : t \in Threads }
        IN  /\ Serialized => m_value \in serial
            /\ m_value \in serial \cup alone
            /\ BothIncrement =>
                  /\ Serialized => m_value = (v + 2) % AtomicModulus
                  /\ m_value \in {(v + 1) % AtomicModulus, (v + 2) % AtomicModulus}

\* C31 witness: both threads executed operator++ once on an object constructed
\* with v and the value is v + 1.
C31_Witness ==
    /\ OneCallEach
    /\ BothIncrement
    /\ m_value = (last[0].n + 1) % AtomicModulus
    /\ ~Serialized

\* --------------------------------------------- copies of instance-local pools
\* A program that constructs one UniquePoolAllocator (pool 0) and one
\* FixedPoolAllocator (pool 1), copy-constructs a second object from each
\* (pools 2 and 3), and calls allocate on all of them.
UniqueCopy == 2
FixedCopy  == 3

\* allocate calls made on the objects per behaviour
CopyCalls == 3

\* (alignment, sizeof(T), capacity) of the pools copied
CopyConfigs ==
    { [alignment |-> 16, value_size |-> 16, capacity |-> 2],
      [alignment |-> 64, value_size |-> 32, capacity |-> 3] }

InitCopy ==
    /\ \E c \in CopyConfigs :
          /\ cfg = [i \in {UniquePool, FixedPool, UniqueCopy, FixedCopy} |-> c]
          /\ tparam = [T |-> c.value_size, blockSize |-> 0]
    /\ \E base \in { Stride(fixed_bytes(FixedPool, cfg[FixedPool].capacity),
                            cfg[FixedPool].alignment) * k : k \in 1..HeapSlots } :
          LET M0 == [data |-> [i \in {UniquePool, FixedPool} |-> NULL],
                     next |-> [i \in {UniquePool, FixedPool} |-> NULL],
                     blk  |-> <<>>,
                     link |-> <<>>]
              M  == FixedPool_malloc(M0, FixedPool, cfg[FixedPool].capacity, base)
          IN  /\ data = M.data
              /\ next = M.next
              /\ blk  = M.blk
              /\ link = M.link
              /\ sysAllocs = << [base  |-> base,
                                 bytes |-> fixed_bytes(FixedPool, cfg[FixedPool].capacity),
                                 align |-> cfg[FixedPool].alignment,
                                 pool  |-> FixedPool] >>
    /\ live = {}
    /\ last = [i \in {UniquePool, FixedPool} |-> NoCall]
    /\ before = [i \in {UniquePool, FixedPool} |-> NoCall]
    /\ fb = NoFind
    /\ nalloc = 0
    /\ ndealloc = 0
    /\ fault = NoFault
    /\ freed = <<>>
    /\ m_value = NoAtomic
    /\ items = NoItems
    /\ thread = NoThreads
    /\ bfs = NoSearch

\* the object copy of the same class is constructed from rhs: its data and
\* next are rhs's
copy_construct(rhs, copy) ==
    /\ data' = (copy :> data[rhs]) @@ data
    /\ next' = (copy :> next[rhs]) @@ next
    /\ last' = (copy :> NoCall) @@ last
    /\ before' = (copy :> NoCall) @@ before

\* constexpr UniquePoolAllocator(const UniquePoolAllocator&) noexcept = default;
UniquePool_copy ==
    /\ ~Aborted
    /\ UniqueCopy \notin DOMAIN data
    /\ copy_construct(UniquePool, UniqueCopy)
    /\ UNCHANGED <<tparam, m_value, items, cfg, freed, thread, bfs, blk, link, sysAllocs,
                   live, fb, nalloc, ndealloc, fault>>

\* FixedPoolAllocator(const FixedPoolAllocator& rhs) { data = rhs.data; next = rhs.next; }
FixedPool_copy ==
    /\ ~Aborted
    /\ FixedCopy \notin DOMAIN data
    /\ copy_construct(FixedPool, FixedCopy)
    /\ UNCHANGED <<tparam, m_value, items, cfg, freed, thread, bfs, blk, link, sysAllocs,
                   live, fb, nalloc, ndealloc, fault>>

\* allocate(1) on the UniquePoolAllocator or on its copy
UniqueCopies_allocate ==
    /\ ~Aborted
    /\ nalloc < CopyCalls
    /\ \E i \in {UniquePool, UniqueCopy} \cap DOMAIN data :
          PoolAllocate(i, i, 1)
    /\ nalloc' = nalloc + 1
    /\ UNCHANGED <<tparam, m_value, items, cfg, freed, thread, bfs, fb, ndealloc, fault>>

\* FixedPoolAllocator::allocate(1) on the FixedPoolAllocator or on its copy
FixedCopies_allocate ==
    /\ ~Aborted
    /\ nalloc < CopyCalls
    /\ \E i \in {FixedPool, FixedCopy} \cap DOMAIN data :
          IF next[i] = NULL
          THEN /\ fault' = OutOfMemory(i)
               /\ UNCHANGED <<data, next, blk, link, live, last, before>>
          ELSE LET r == pop(Mem, i)
               IN  /\ Commit(r.mem)
                   /\ live' = live \cup {[pool |-> i, ptr |-> r.ret, n |-> 1]}
                   /\ Log(i, Call("allocate", i, r.ret, 1, FALSE))
                   /\ UNCHANGED fault
    /\ nalloc' = nalloc + 1
    /\ UNCHANGED <<tparam, m_value, items, cfg, freed, thread, bfs, sysAllocs, fb, ndealloc>>

NextCopy ==
    \/ UniquePool_copy
    \/ FixedPool_copy
    \/ UniqueCopies_allocate
    \/ FixedCopies_allocate

SpecCopy == InitCopy /\ [][NextCopy]_vars

\* C34: after B has been copy-constructed from a FixedPoolAllocator or a
\* UniquePoolAllocator A, the pointers returned by allocate calls on A and on
\* B, in any order, are pairwise distinct: no slot is outstanding under two
\* objects at once.
C34_CopiesDistinct ==
    \A a, b \in live : a.pool # b.pool => a.ptr # b.ptr

\* ------------------------------------------------------------------ QuickSort
\* longest array handed to Sort, and the values of its elements
MaxLen == 4
SortValues == {1, 2, 3}

\* the arrays T(&items)[itemsCount]: itemsCount >= 1
SortInputs == UNION { [1..n -> SortValues] : n \in 1..MaxLen }

\* the three assignments through tmp: *tmp = *x; *x = *y; *y = *tmp;
swap_through_tmp(a, x, y) == [a EXCEPT ![x] = a[y], ![y] = a[x]]

\* for (; itr < end; ++itr) { if (*itr < *pivot) { ...; ++swap; } }
\* pivot is a pointer: *pivot is read anew at every comparison
RECURSIVE partition_loop(_, _, _, _, _)
partition_loop(a, pivot, swap, itr, end) ==
    IF itr < end
    THEN IF a[itr] < a[pivot]
         THEN partition_loop(swap_through_tmp(a, swap, itr), pivot, swap + 1, itr + 1, end)
         ELSE partition_loop(a, pivot, swap, itr + 1, end)
    ELSE [a |-> a, swap |-> swap]

\* T* Partition(T* begin, T* end): elements are addressed by their position in
\* items, the first being 1
Partition(a, begin, end) ==
    LET pivot == begin + (end - begin) \div 2
        r     == partition_loop(a, pivot, begin, begin, end)
    IN  [a |-> swap_through_tmp(r.a, r.swap, end), p |-> r.swap]

\* void Sort(T* items, T* begin, T* end)
RECURSIVE Sort(_, _, _)
Sort(a, begin, end) ==
    IF begin < end
    THEN LET r == Partition(a, begin, end)
         IN  Sort(Sort(r.a, begin, r.p - 1), r.p + 1, end)
    ELSE a

InitSort ==
    /\ tparam = [T |-> 4, blockSize |-> 0]
    /\ cfg = <<>>
    /\ data = <<>>
    /\ next = <<>>
    /\ blk = <<>>
    /\ link = <<>>
    /\ sysAllocs = <<>>
    /\ live = {}
    /\ last = <<>>
    /\ before = <<>>
    /\ fb = NoFind
    /\ nalloc = 0
    /\ ndealloc = 0
    /\ fault = NoFault
    /\ freed = <<>>
    /\ m_value = NoAtomic
    /\ \E a \in SortInputs : items = [array |-> a, given |-> a, sorted |-> FALSE]
    /\ thread = NoThreads
    /\ bfs = NoSearch

\* void Sort(T(&items)[itemsCount]) { Sort(items, items, items + itemsCount - 1); }
QuickSort_Sort ==
    /\ ~items.sorted
    /\ items' = [items EXCEPT !.array = Sort(items.array, 1, Len(items.array)),
                              !.sorted = TRUE]
    /\ UNCHANGED <<tparam, m_value, cfg, freed, thread, bfs, data, next, blk, link,
                   sysAllocs, live, last, before, fb, nalloc, ndealloc, fault>>

NextSort == QuickSort_Sort

SpecSort == InitSort /\ [][NextSort]_vars

\* C36: after QuickSort::Sort(items) the array is in non-decreasing order, for
\* every array given, those with duplicates and those whose middle element is
\* the minimum included.
C36_SortedAfterSort ==
    items.sorted =>
        \A j, k \in 1..Len(items.array) : j < k => items.array[j] <= items.array[k]

====
